---- MODULE Spec2Model ----
(***************************************************************************)
(* Network matrix detection (SCIPnetmatdec) as driven by the unit tests    *)
(* in tests/src/network/network.c, and the connected-components routine    *)
(* of the implied-integer presolver in src/scip/presol_implint.c.           *)
(*                                                                         *)
(* C arrays are modelled as functions with domain 0..n-1.                  *)
(***************************************************************************)
EXTENDS Integers, FiniteSets, Sequences, TLC

\* ------------------------------------------------------------------------
\* Bounds of the model
\* ------------------------------------------------------------------------

\* number of rows of the matrices the network test cases are drawn from
MaxRows == 3

\* number of columns of the matrices the network test cases are drawn from
MaxCols == 3

RowIds == 0..(MaxRows - 1)

ColIds == 0..(MaxCols - 1)

Coefs == {-1, 0, 1}

\* ------------------------------------------------------------------------
\* Test matrices: DirectedTestCase and its conversions
\* ------------------------------------------------------------------------

\* the positions k..n-1 of nums that hold a nonzero number, in order
RECURSIVE NonzeroPositions(_, _, _)
NonzeroPositions(nums, k, n) ==
    IF k >= n THEN <<>>
    ELSE (IF nums[k] # 0 THEN <<k>> ELSE <<>>) \o NonzeroPositions(nums, k + 1, n)

\* stringToTestCase: the numbers of the string, read row by row, stored as CSR.
\* nums is the sequence of numbers strtod reads from the string.
stringToTestCase(nums, rows, cols) ==
    LET at == NonzeroPositions(nums, 0, rows * cols)
        nnz == Len(at)
    IN  [ nrows |-> rows,
          ncols |-> cols,
          nnonzs |-> nnz,
          isRowWise |-> TRUE,
          primaryIndexStart |->
              [r \in 0..rows |-> Cardinality({p \in 1..nnz : at[p] < r * cols})],
          entrySecondaryIndex |-> [p \in 0..(nnz - 1) |-> at[p + 1] % cols],
          entryValue |-> [p \in 0..(nnz - 1) |-> nums[at[p + 1]]] ]

\* the entries e..nnz-1 whose secondary index is k, in order
RECURSIVE EntriesOfIndex(_, _, _, _)
EntriesOfIndex(sec, nnz, k, e) ==
    IF e >= nnz THEN <<>>
    ELSE (IF sec[e] = k THEN <<e>> ELSE <<>>) \o EntriesOfIndex(sec, nnz, k, e + 1)

\* the entries in the order of the transposed storage: by secondary index, and
\* within one secondary index in the order of the original storage
RECURSIVE TransposedOrder(_, _, _, _)
TransposedOrder(sec, nnz, ns, k) ==
    IF k >= ns THEN <<>>
    ELSE EntriesOfIndex(sec, nnz, k, 0) \o TransposedOrder(sec, nnz, ns, k + 1)

\* a faulty transposition: the indices are moved to their new places, the values
\* stay where they were
transposeMatrixStorageKeepingValues(tc) ==
    LET np == IF tc.isRowWise THEN tc.nrows ELSE tc.ncols
        ns == IF tc.isRowWise THEN tc.ncols ELSE tc.nrows
        E == 0..(tc.nnonzs - 1)
        sec == tc.entrySecondaryIndex
        prim(e) == CHOOSE p \in 0..(np - 1) :
                      tc.primaryIndexStart[p] <= e /\ e < tc.primaryIndexStart[p + 1]
        from == TransposedOrder(sec, tc.nnonzs, ns, 0)
    IN  [ nrows |-> tc.nrows,
          ncols |-> tc.ncols,
          nnonzs |-> tc.nnonzs,
          isRowWise |-> ~tc.isRowWise,
          primaryIndexStart |-> [k \in 0..ns |-> Cardinality({f \in E : sec[f] < k})],
          entrySecondaryIndex |-> [q \in E |-> prim(from[q + 1])],
          entryValue |-> tc.entryValue ]

\* transposeMatrixStorage: CSR <-> CSC by a stable counting sort on the
\* secondary index.
transposeMatrixStorage(tc) ==
    LET np == IF tc.isRowWise THEN tc.nrows ELSE tc.ncols
        ns == IF tc.isRowWise THEN tc.ncols ELSE tc.nrows
        E == 0..(tc.nnonzs - 1)
        sec == tc.entrySecondaryIndex
        prim(e) == CHOOSE p \in 0..(np - 1) :
                      tc.primaryIndexStart[p] <= e /\ e < tc.primaryIndexStart[p + 1]
        from == TransposedOrder(sec, tc.nnonzs, ns, 0)
    IN  [ nrows |-> tc.nrows,
          ncols |-> tc.ncols,
          nnonzs |-> tc.nnonzs,
          isRowWise |-> ~tc.isRowWise,
          primaryIndexStart |-> [k \in 0..ns |-> Cardinality({f \in E : sec[f] < k})],
          entrySecondaryIndex |-> [q \in E |-> prim(from[q + 1])],
          entryValue |-> [q \in E |-> tc.entryValue[from[q + 1]]] ]

\* copyTestCase: a deep copy
copyTestCase(tc) == tc

\* the slice &array[start] of length n, as an array of its own
Slice(array, start, n) == [k \in 0..(n - 1) |-> array[start + k]]

\* ------------------------------------------------------------------------
\* The decomposition (SCIP_NETMATDEC): the accepted matrix and a directed
\* graph realising it.  Row r is the tree arc between node r + 1 and its
\* parent par[r]; up[r] says the arc points from r + 1 to par[r].  Column c
\* is the non-tree arc whose fundamental cycle runs through the tree path
\* from colarc[c][1] to colarc[c][2].
\* ------------------------------------------------------------------------

NodesOf(R) == {0} \cup {r + 1 : r \in R}

RECURSIVE ReachesRoot(_, _, _)
ReachesRoot(par, v, fuel) ==
    IF v = 0 THEN TRUE
    ELSE IF fuel = 0 THEN FALSE
    ELSE ReachesRoot(par, par[v - 1], fuel - 1)

\* the nodes on the way from v to the root, v and the root included
RECURSIVE RootPath(_, _)
RootPath(par, v) == IF v = 0 THEN {0} ELSE {v} \cup RootPath(par, par[v - 1])

\* the signed rows of the tree path from node s to node t
PathVec(R, par, up, s, t) ==
    LET ps == RootPath(par, s)
        pt == RootPath(par, t)
    IN  [r \in R |->
            IF (r + 1) \in ps /\ (r + 1) \notin pt THEN (IF up[r] THEN 1 ELSE -1)
            ELSE IF (r + 1) \in pt /\ (r + 1) \notin ps THEN (IF up[r] THEN -1 ELSE 1)
            ELSE 0]

\* a vector over the rows R written as one number, digit v[r] + 1 at 3^r
RECURSIVE VecCode(_, _)
VecCode(v, R) ==
    IF R = {} THEN 0
    ELSE LET r == CHOOSE q \in R : \A q2 \in R : q2 <= q
         IN  VecCode(v, R \ {r}) * 3 + (v[r] + 1)

\* every directed tree with the rows R as arcs; codes holds the vectors of its
\* paths, arcs the end nodes of one path for each vector
TreesOn(R) ==
    LET N == NodesOf(R)
        pars == {p \in [R -> N] : \A r \in R : ReachesRoot(p, r + 1, Cardinality(R))}
        all == { [par |-> p, up |-> u,
                  codes |-> {VecCode(PathVec(R, p, u, st[1], st[2]), R) : st \in N \X N}] :
                 p \in pars, u \in [R -> BOOLEAN] }
    IN  \* trees with the same paths realise the same matrices: one of each is kept
        {CHOOSE T \in all : T.codes = S : S \in {T.codes : T \in all}}

TreeTable == {<<R, TreesOn(R)>> : R \in SUBSET RowIds}

TreesOf(R) == (CHOOSE e \in TreeTable : e[1] = R)[2]

\* the matrix of a decomposition that holds nothing
EmptyVal(nrows, ncols) == [rc \in (0..(nrows - 1)) \X (0..(ncols - 1)) |-> 0]

\* SCIPnetmatdecCreate(blkmem, &dec, nrows, ncols): an empty decomposition
SCIPnetmatdecCreate(nrows, ncols) ==
    [ nrows |-> nrows, ncols |-> ncols,
      rowids |-> {}, colids |-> {}, val |-> EmptyVal(nrows, ncols),
      par |-> <<>>, up |-> <<>>, colarc |-> <<>> ]

ColVec(val, R, c) == [r \in R |-> val[<<r, c>>]]

ColCodes(val, R, C) == {VecCode(ColVec(val, R, c), R) : c \in C}

\* the rows of the tree path between the nodes s and t
PathRows(par, s, t) ==
    LET ps == RootPath(par, s)
        pt == RootPath(par, t)
    IN  {v - 1 : v \in (ps \ pt) \cup (pt \ ps)}

\* the directed trees on the rows R in which every column of C is a path.  For
\* rows beyond the table the trees are searched: first the shape, in which the
\* rows of every column must lie on one path, then the directions.
FittingTrees(R, C, val) ==
    LET cc == ColCodes(val, R, C)
    IN  IF R \subseteq RowIds
        THEN {T \in TreesOf(R) : cc \subseteq T.codes}
        ELSE LET N == NodesOf(R)
                 sup == {{r \in R : val[<<r, c>>] # 0} : c \in C}
                 pars == {p \in [R -> N] :
                            /\ \A r \in R : ReachesRoot(p, r + 1, Cardinality(R))
                            /\ sup \subseteq {PathRows(p, st[1], st[2]) : st \in N \X N}}
                 all == { [par |-> p, up |-> u,
                           codes |-> {VecCode(PathVec(R, p, u, st[1], st[2]), R) :
                                        st \in N \X N}] :
                          p \in pars, u \in [R -> BOOLEAN] }
             IN  {T \in all : cc \subseteq T.codes}

\* the end nodes of the tree path whose signed rows are the vector v
PathEnds(R, par, up, v) ==
    LET N == NodesOf(R)
        code == VecCode(v, R)
    IN  CHOOSE st \in N \X N : VecCode(PathVec(R, par, up, st[1], st[2]), R) = code

\* ------------------------------------------------------------------------
\* The members of the decomposition: the graph cut at its 2-separations.  An
\* arc is a row, a column or a marker; a marker is held by the two members it
\* joins.
\* ------------------------------------------------------------------------

\* the arcs of the graph: row r has the id r, column c the id nrows + c
ArcsOf(d) ==
    {[id |-> r, ends |-> {r + 1, d.par[r]}, marker |-> FALSE] : r \in d.rowids}
      \cup {[id |-> d.nrows + c, ends |-> {d.colarc[c][1], d.colarc[c][2]},
              marker |-> FALSE] : c \in d.colids}

NodesIn(E) == UNION {e.ends : e \in E}

\* the arcs of E that a chain of arcs meeting outside the nodes S joins to the
\* arcs K
RECURSIVE ClassOf(_, _, _)
ClassOf(E, S, K) ==
    LET more == K \cup {e \in E : \E f \in K : (e.ends \cap f.ends) \ S # {}}
    IN  IF more = K THEN K ELSE ClassOf(E, S, more)

\* the blocks of the arcs `left` of the graph E without loops: two arcs are in
\* one block if no single node separates them
RECURSIVE BlocksFrom(_, _)
BlocksFrom(E, left) ==
    IF left = {} THEN {}
    ELSE LET e == CHOOSE x \in left : TRUE
             classes == {ClassOf(E, {v}, {e}) : v \in NodesIn(E)}
             block == {f \in left : \A K \in classes : f \in K}
         IN  {block} \cup BlocksFrom(E, left \ block)

\* the blocks of the graph: a loop is a block of its own
BlocksOf(E) ==
    LET loops == {e \in E : Cardinality(e.ends) = 1}
    IN  {{e} : e \in loops} \cup BlocksFrom(E \ loops, E \ loops)

\* E1 is one half of a 2-separation of the arcs M: at least two arcs on either
\* side, and two nodes in common
IsSeparation(M, E1) ==
    /\ Cardinality(E1) >= 2
    /\ Cardinality(M \ E1) >= 2
    /\ Cardinality(NodesIn(E1) \cap NodesIn(M \ E1)) = 2

\* the members: every arc set of todo is cut at a 2-separation, with a new marker
\* in both halves, until none has one
RECURSIVE SplitAll(_, _, _)
SplitAll(todo, done, next) ==
    IF todo = {} THEN done
    ELSE LET M == CHOOSE X \in todo : TRUE
         IN  IF Cardinality(M) < 4 \/ ~(\E X \in SUBSET M : IsSeparation(M, X))
             THEN SplitAll(todo \ {M}, done \cup {M}, next)
             ELSE LET E1 == CHOOSE X \in SUBSET M : IsSeparation(M, X)
                      m == [id |-> next,
                            ends |-> NodesIn(E1) \cap NodesIn(M \ E1),
                            marker |-> TRUE]
                  IN  SplitAll((todo \ {M}) \cup {E1 \cup {m}, (M \ E1) \cup {m}},
                               done, next + 1)

\* the type of a member: a loop or bridge, a parallel member (a bond), a series
\* member (a polygon), or a rigid member
MemberType(M) ==
    IF Cardinality(M) = 1 THEN "loop"
    ELSE IF Cardinality(NodesIn(M)) = 2 THEN "parallel"
    ELSE IF Cardinality(M) = Cardinality(NodesIn(M)) THEN "series"
    ELSE "rigid"

\* the pairs of members that a marker joins and that are both series or both
\* parallel
Reducible(members) ==
    {pair \in members \X members :
        /\ pair[1] # pair[2]
        /\ \E e \in pair[1] \cap pair[2] : e.marker
        /\ MemberType(pair[1]) = MemberType(pair[2])
        /\ MemberType(pair[1]) \in {"series", "parallel"}}

\* a reduction that is left out
MinimaliseNot(members) == members

\* the members made minimal: two series members or two parallel members that a
\* marker joins become one member, without the marker
RECURSIVE Minimalise(_)
Minimalise(members) ==
    IF Reducible(members) = {} THEN members
    ELSE LET pair == CHOOSE q \in Reducible(members) : TRUE
             merged == (pair[1] \cup pair[2]) \ {e \in pair[1] \cap pair[2] : e.marker}
         IN  Minimalise((members \ {pair[1], pair[2]}) \cup {merged})

\* the members of the decomposition
MembersOf(d) == Minimalise(SplitAll(BlocksOf(ArcsOf(d)), {}, d.nrows + d.ncols))

\* a faulty decomposition: the arcs the decomposition holds already stay as they
\* are, only the new rows are hung into the tree
DecomposeKeepingTree(d, R, C, val) ==
    LET fit == {T \in FittingTrees(R, C, val) :
                   \A r \in d.rowids : T.par[r] = d.par[r] /\ T.up[r] = d.up[r]}
    IN  IF fit # {}
        THEN LET T == CHOOSE T \in fit : TRUE
             IN  [ ok |-> TRUE,
                   dec |-> [ nrows |-> d.nrows, ncols |-> d.ncols,
                             rowids |-> R, colids |-> C, val |-> val,
                             par |-> T.par, up |-> T.up,
                             colarc |-> [c \in C |->
                                PathEnds(R, T.par, T.up, ColVec(val, R, c))] ] ]
        ELSE [ ok |-> FALSE ]

\* the decomposition of the matrix val on rows R and columns C, if it has one
Decompose(d, R, C, val) ==
    LET fit == FittingTrees(R, C, val)
    IN  IF fit # {}
        THEN LET T == CHOOSE T \in fit : TRUE
             IN  [ ok |-> TRUE,
                   dec |-> [ nrows |-> d.nrows, ncols |-> d.ncols,
                             rowids |-> R, colids |-> C, val |-> val,
                             par |-> T.par, up |-> T.up,
                             colarc |-> [c \in C |->
                                PathEnds(R, T.par, T.up, ColVec(val, R, c))] ] ]
        ELSE [ ok |-> FALSE ]

\* the matrix val with the entries 0..k of the added row or column written into it
RECURSIVE WithEntries(_, _, _, _, _, _)
WithEntries(val, id, byRow, nonzidx, nonzvals, k) ==
    IF k < 0 THEN val
    ELSE WithEntries(
            [val EXCEPT ![IF byRow THEN <<id, nonzidx[k]>> ELSE <<nonzidx[k], id>>] = nonzvals[k]],
            id, byRow, nonzidx, nonzvals, k - 1)

\* a faulty row addition: a rejected row stays registered in the decomposition
SCIPnetmatdecTryAddRowLeavingTrace(d, row, nonzcols, nonzvals, nnonzs) ==
    IF \/ row \notin 0..(d.nrows - 1)
       \/ row \in d.rowids
       \/ \E k \in 0..(nnonzs - 1) :
             nonzcols[k] \notin 0..(d.ncols - 1) \/ nonzvals[k] \notin {-1, 1}
    THEN [ retcode |-> "SCIP_ERROR", success |-> FALSE, dec |-> d ]
    ELSE LET C == d.colids \cup {nonzcols[k] : k \in 0..(nnonzs - 1)}
             val == WithEntries(d.val, row, TRUE, nonzcols, nonzvals, nnonzs - 1)
             new == Decompose(d, d.rowids \cup {row}, C, val)
         IN  IF new.ok
             THEN [ retcode |-> "SCIP_OKAY", success |-> TRUE, dec |-> new.dec ]
             ELSE [ retcode |-> "SCIP_OKAY", success |-> FALSE,
                    dec |-> [d EXCEPT !.rowids = @ \cup {row}] ]

\* a row addition that takes a column the decomposition does not hold for
\* invalid input
SCIPnetmatdecTryAddRowKnownColumnsOnly(d, row, nonzcols, nonzvals, nnonzs) ==
    IF \/ row \notin 0..(d.nrows - 1)
       \/ row \in d.rowids
       \/ \E k \in 0..(nnonzs - 1) :
             nonzcols[k] \notin d.colids \/ nonzvals[k] \notin {-1, 1}
    THEN [ retcode |-> "SCIP_ERROR", success |-> FALSE, dec |-> d ]
    ELSE LET val == WithEntries(d.val, row, TRUE, nonzcols, nonzvals, nnonzs - 1)
             new == Decompose(d, d.rowids \cup {row}, d.colids, val)
         IN  IF new.ok
             THEN [ retcode |-> "SCIP_OKAY", success |-> TRUE, dec |-> new.dec ]
             ELSE [ retcode |-> "SCIP_OKAY", success |-> FALSE, dec |-> d ]

\* a faulty row addition: a row with the nonzero columns of a row the
\* decomposition holds is turned down
SCIPnetmatdecTryAddRowNoParallel(d, row, nonzcols, nonzvals, nnonzs) ==
    IF \/ row \notin 0..(d.nrows - 1)
       \/ row \in d.rowids
       \/ \E k \in 0..(nnonzs - 1) :
             nonzcols[k] \notin 0..(d.ncols - 1) \/ nonzvals[k] \notin {-1, 1}
    THEN [ retcode |-> "SCIP_ERROR", success |-> FALSE, dec |-> d ]
    ELSE LET C == d.colids \cup {nonzcols[k] : k \in 0..(nnonzs - 1)}
             val == WithEntries(d.val, row, TRUE, nonzcols, nonzvals, nnonzs - 1)
             new == Decompose(d, d.rowids \cup {row}, C, val)
             parallel == \E r \in d.rowids :
                            {c \in 0..(d.ncols - 1) : d.val[<<r, c>>] # 0}
                               = {nonzcols[k] : k \in 0..(nnonzs - 1)}
         IN  IF new.ok /\ ~parallel
             THEN [ retcode |-> "SCIP_OKAY", success |-> TRUE, dec |-> new.dec ]
             ELSE [ retcode |-> "SCIP_OKAY", success |-> FALSE, dec |-> d ]

\* SCIPnetmatdecTryAddRow(dec, row, nonzcols, nonzvals, nnonzs, &success).
\* A column the row names that the decomposition does not hold yet comes in with
\* the row.
SCIPnetmatdecTryAddRow(d, row, nonzcols, nonzvals, nnonzs) ==
    IF \/ row \notin 0..(d.nrows - 1)
       \/ row \in d.rowids
       \/ \E k \in 0..(nnonzs - 1) :
             nonzcols[k] \notin 0..(d.ncols - 1) \/ nonzvals[k] \notin {-1, 1}
    THEN [ retcode |-> "SCIP_ERROR", success |-> FALSE, dec |-> d ]
    ELSE LET C == d.colids \cup {nonzcols[k] : k \in 0..(nnonzs - 1)}
             val == WithEntries(d.val, row, TRUE, nonzcols, nonzvals, nnonzs - 1)
             new == Decompose(d, d.rowids \cup {row}, C, val)
         IN  IF new.ok
             THEN [ retcode |-> "SCIP_OKAY", success |-> TRUE, dec |-> new.dec ]
             ELSE [ retcode |-> "SCIP_OKAY", success |-> FALSE, dec |-> d ]

\* a faulty column addition: a column without nonzeros is rejected
SCIPnetmatdecTryAddColNonempty(d, col, nonzrows, nonzvals, nnonzs) ==
    IF \/ col \notin 0..(d.ncols - 1)
       \/ col \in d.colids
       \/ \E k \in 0..(nnonzs - 1) :
             nonzrows[k] \notin 0..(d.nrows - 1) \/ nonzvals[k] \notin {-1, 1}
    THEN [ retcode |-> "SCIP_ERROR", success |-> FALSE, dec |-> d ]
    ELSE LET R == d.rowids \cup {nonzrows[k] : k \in 0..(nnonzs - 1)}
             val == WithEntries(d.val, col, FALSE, nonzrows, nonzvals, nnonzs - 1)
             new == Decompose(d, R, d.colids \cup {col}, val)
         IN  IF new.ok /\ nnonzs > 0
             THEN [ retcode |-> "SCIP_OKAY", success |-> TRUE, dec |-> new.dec ]
             ELSE [ retcode |-> "SCIP_OKAY", success |-> FALSE, dec |-> d ]

\* SCIPnetmatdecTryAddCol(dec, col, nonzrows, nonzvals, nnonzs, &success).
\* A row the column names that the decomposition does not hold yet comes in with
\* the column.
SCIPnetmatdecTryAddCol(d, col, nonzrows, nonzvals, nnonzs) ==
    IF \/ col \notin 0..(d.ncols - 1)
       \/ col \in d.colids
       \/ \E k \in 0..(nnonzs - 1) :
             nonzrows[k] \notin 0..(d.nrows - 1) \/ nonzvals[k] \notin {-1, 1}
    THEN [ retcode |-> "SCIP_ERROR", success |-> FALSE, dec |-> d ]
    ELSE LET R == d.rowids \cup {nonzrows[k] : k \in 0..(nnonzs - 1)}
             val == WithEntries(d.val, col, FALSE, nonzrows, nonzvals, nnonzs - 1)
             new == Decompose(d, R, d.colids \cup {col}, val)
         IN  IF new.ok
             THEN [ retcode |-> "SCIP_OKAY", success |-> TRUE, dec |-> new.dec ]
             ELSE [ retcode |-> "SCIP_OKAY", success |-> FALSE, dec |-> d ]

\* the fundamental cycle of a column: the rows of the tree path between the end
\* nodes of its arc, with their signs
FundamentalCycle(d, column) ==
    IF column \notin d.colids THEN {}
    ELSE LET v == PathVec(d.rowids, d.par, d.up, d.colarc[column][1], d.colarc[column][2])
         IN  {<<r, v[r]>> : r \in {q \in d.rowids : v[q] # 0}}

\* SCIPnetmatdecIsMinimal(dec): no marker joins two series members or two
\* parallel members
SCIPnetmatdecIsMinimal(d) == Reducible(MembersOf(d)) = {}

\* a faulty cycle check: it turns the arc of the column it looked at around
SCIPnetmatdecVerifyCycleTurningArc(d, column, nonzrowidx, nonzvals, nnonzs) ==
    LET given == {<<nonzrowidx[k], nonzvals[k]>> : k \in 0..(nnonzs - 1)}
        cycle == FundamentalCycle(d, column)
    IN  [ result |-> (Cardinality(cycle) = nnonzs /\ given = cycle),
          dec |-> IF column \in d.colids
                  THEN [d EXCEPT !.colarc[column] = <<@[2], @[1]>>]
                  ELSE d ]

\* SCIPnetmatdecVerifyCycle(bufmem, dec, column, nonzrowidx, nonzvals, nnonzs, ...)
SCIPnetmatdecVerifyCycle(d, column, nonzrowidx, nonzvals, nnonzs) ==
    LET given == {<<nonzrowidx[k], nonzvals[k]>> : k \in 0..(nnonzs - 1)}
        cycle == FundamentalCycle(d, column)
    IN  [ result |-> (Cardinality(cycle) = nnonzs /\ given = cycle), dec |-> d ]

\* ------------------------------------------------------------------------
\* runRowTestCase / runColumnTestCase
\* ------------------------------------------------------------------------

VARIABLES
    nums,             \* the numbers of the string the test case is made from
    testCase,         \* the DirectedTestCase, in the storage order of the run
    colWiseCase,      \* runRowTestCase's column-wise copy
    mode,             \* "row": runRowTestCase, "col": runColumnTestCase,
                      \* "graph": runRowTestCaseGraph
    i,                \* the loop index
    dec,              \* the SCIP_NETMATDEC
    isNetwork,        \* the flag SCIPnetmatdecTryAddRow/Col wrote last
    retcode,          \* what SCIPnetmatdecTryAddRow/Col returned last
    isMinimal,        \* every cr_expect(SCIPnetmatdecIsMinimal(dec)) held so far
    cycleIsCorrect,   \* every cr_expect(cycleIsCorrect) held so far
    referencedAbsent, \* the last call named an index the decomposition did not hold
    graph,            \* runRowTestCaseGraph's SCIP_DIGRAPH
    pc                \* "loop", "graph", "done" or "aborted"

\* computeContinuousComponents
VARIABLES
    matrix,                  \* the SCIP_MATRIX: its size, columns and variable types
    comp,                    \* the MATRIX_COMPONENTS
    disjointset,             \* columns at 0..ncols-1, rows at ncols..ncols+nrows-1
    representativecomponent, \* the component of each root seen so far
    ccCol,                   \* the loop variable col
    ccRow,                   \* the loop variable row
    ccEntry,                 \* the loop variable i of the loop over a column's nonzeros
    colrep,                  \* the representative of the column at hand
    dscalls,                 \* the disjointSetFind/Merge calls of the last step, in order
    ccpc                     \* the loop computeContinuousComponents is in

\* presolExecImplint, computeMatrixStatistics and findImpliedIntegers
VARIABLES
    presoldata,            \* the SCIP_PRESOLDATA: convertintegers and columnrowratio
    vartype,               \* the type SCIPvarGetType reports for the variable of each column
    stats,                 \* the MATRIX_STATISTICS
    decPrimary,            \* findImpliedIntegers' dec
    transdec,              \* findImpliedIntegers' transdec
    fiComponent,           \* the loop variable component
    fiIndex,               \* the loop variable i of the loop that adds rows or columns
    componentnetwork,      \* the flag the calls on dec write
    componenttransnetwork, \* the flag the calls on transdec write
    tally,                 \* goodcomponents, planarcomponents, nbadnumerics, ...
    nchgvartypes,          \* *nchgvartypes
    result,                \* *result
    calls,                 \* every SCIPnetmatdecTryAddRow/Col call made so far, in order
    removals,              \* every SCIPnetmatdecRemoveComponent call made so far, in order
    scip,                  \* what SCIP answers: stage, probing, NLP, stopped, pricers,
                           \* and what SCIPmatrixCreate reports
    matrixalloc,           \* the SCIP_MATRIX: "none", "allocated" or "freed"
    fipc                   \* where presolExecImplint is

netvars == <<nums, testCase, colWiseCase, mode, i, dec, isNetwork, retcode,
             isMinimal, cycleIsCorrect, referencedAbsent, graph, pc>>

ccvars == <<matrix, comp, disjointset, representativecomponent, ccCol, ccRow,
            ccEntry, colrep, dscalls, ccpc>>

fivars == <<presoldata, vartype, stats, decPrimary, transdec, fiComponent, fiIndex,
            componentnetwork, componenttransnetwork, tally, nchgvartypes, result,
            calls, removals, scip, matrixalloc, fipc>>

vars == <<netvars, ccvars, fivars>>

\* no network test case is running
NetworkIdle ==
    /\ nums = <<>> /\ testCase = <<>> /\ colWiseCase = <<>> /\ mode = "none"
    /\ i = 0 /\ dec = <<>> /\ isNetwork = TRUE /\ retcode = "SCIP_OKAY"
    /\ isMinimal = TRUE /\ cycleIsCorrect = TRUE /\ referencedAbsent = FALSE
    /\ graph = <<>>
    /\ pc = "idle"

\* no component computation is running
ComponentsIdle ==
    /\ matrix = <<>> /\ comp = <<>> /\ disjointset = <<>>
    /\ representativecomponent = <<>> /\ ccCol = 0 /\ ccRow = 0 /\ ccEntry = 0
    /\ colrep = 0 /\ dscalls = <<>> /\ ccpc = "idle"

\* the presolver is not running
ImplintIdle ==
    /\ presoldata = <<>> /\ vartype = <<>> /\ stats = <<>> /\ decPrimary = <<>>
    /\ transdec = <<>> /\ fiComponent = 0 /\ fiIndex = 0 /\ componentnetwork = TRUE
    /\ componenttransnetwork = TRUE /\ tally = <<>> /\ nchgvartypes = 0
    /\ result = "SCIP_DIDNOTRUN" /\ calls = <<>> /\ removals = <<>> /\ fipc = "idle"
    /\ scip = <<>> /\ matrixalloc = "none"

Init ==
    /\ mode \in {"row", "col"}
    /\ \E rows \in 1..MaxRows, cols \in 1..MaxCols :
          /\ nums \in [0..(rows * cols - 1) -> Coefs]
          /\ \E tc \in {stringToTestCase(nums, rows, cols)} :
                \E cw \in {transposeMatrixStorage(copyTestCase(tc))} :
                   /\ testCase = IF mode = "row" THEN tc ELSE cw
                   /\ colWiseCase = cw
          /\ dec = SCIPnetmatdecCreate(rows, cols)
    /\ i = 0
    /\ isNetwork = TRUE
    /\ retcode = "SCIP_OKAY"
    /\ isMinimal = TRUE
    /\ cycleIsCorrect = TRUE
    /\ referencedAbsent = FALSE
    /\ graph = <<>>
    /\ pc = "loop"
    /\ ComponentsIdle
    /\ ImplintIdle

\* a faulty count: every entry of column j, whichever rows were added
RowCaseColumnCountWhole(cw, j, row) ==
    cw.primaryIndexStart[j + 1] - cw.primaryIndexStart[j]

\* the number of entries of column j that runRowTestCase hands to the cycle
\* check after row `row`: those up to the first one in a later row
RowCaseColumnCount(cw, j, row) ==
    LET jColEntryStart == cw.primaryIndexStart[j]
        jColEntryEnd == cw.primaryIndexStart[j + 1]
        later == {e \in jColEntryStart..(jColEntryEnd - 1) : cw.entrySecondaryIndex[e] > row}
        finalEntryIndex == IF later = {} THEN jColEntryEnd
                           ELSE CHOOSE e \in later : \A f \in later : e <= f
    IN  finalEntryIndex - jColEntryStart

\* the cycle checks runRowTestCase makes after row `row` was accepted, from
\* column j on
RECURSIVE RowCaseCycles(_, _, _, _)
RowCaseCycles(d, cw, row, j) ==
    IF j >= cw.ncols THEN [ok |-> TRUE, dec |-> d]
    ELSE LET jStart == cw.primaryIndexStart[j]
             jNonzeros == RowCaseColumnCount(cw, j, row)
             v == SCIPnetmatdecVerifyCycle(d, j,
                      Slice(cw.entrySecondaryIndex, jStart, jNonzeros),
                      Slice(cw.entryValue, jStart, jNonzeros), jNonzeros)
             rest == RowCaseCycles(v.dec, cw, row, j + 1)
         IN  [ok |-> v.result /\ rest.ok, dec |-> rest.dec]

\* the cycle checks runColumnTestCase makes after column `col` was accepted,
\* from column j on
RECURSIVE ColCaseCycles(_, _, _, _)
ColCaseCycles(d, tc, col, j) ==
    IF j > col THEN [ok |-> TRUE, dec |-> d]
    ELSE LET jStart == tc.primaryIndexStart[j]
             jNonzeros == tc.primaryIndexStart[j + 1] - jStart
             v == SCIPnetmatdecVerifyCycle(d, j,
                      Slice(tc.entrySecondaryIndex, jStart, jNonzeros),
                      Slice(tc.entryValue, jStart, jNonzeros), jNonzeros)
             rest == ColCaseCycles(v.dec, tc, col, j + 1)
         IN  [ok |-> v.result /\ rest.ok, dec |-> rest.dec]

\* a faulty call: the last entry of the row is left out
AddRowOfShortByOne(d, tc, k) ==
    LET rowEntryStart == tc.primaryIndexStart[k]
        rowEntryEnd == tc.primaryIndexStart[k + 1]
        nonzeros == IF rowEntryEnd > rowEntryStart THEN rowEntryEnd - rowEntryStart - 1 ELSE 0
    IN  SCIPnetmatdecTryAddRow(d, k,
            Slice(tc.entrySecondaryIndex, rowEntryStart, nonzeros),
            Slice(tc.entryValue, rowEntryStart, nonzeros), nonzeros)

\* a faulty call: the signs of the entries are lost
AddRowOfUnsigned(d, tc, k) ==
    LET rowEntryStart == tc.primaryIndexStart[k]
        nonzeros == tc.primaryIndexStart[k + 1] - rowEntryStart
    IN  SCIPnetmatdecTryAddRow(d, k,
            Slice(tc.entrySecondaryIndex, rowEntryStart, nonzeros),
            [e \in 0..(nonzeros - 1) |-> 1], nonzeros)

\* the call runRowTestCase makes for row k of the test case
AddRowOf(d, tc, k) ==
    LET rowEntryStart == tc.primaryIndexStart[k]
        nonzeros == tc.primaryIndexStart[k + 1] - rowEntryStart
    IN  SCIPnetmatdecTryAddRow(d, k,
            Slice(tc.entrySecondaryIndex, rowEntryStart, nonzeros),
            Slice(tc.entryValue, rowEntryStart, nonzeros), nonzeros)

\* a faulty call: the signs of the entries of the column are lost
AddColOfUnsigned(d, tc, k) ==
    LET colEntryStart == tc.primaryIndexStart[k]
        nonzeros == tc.primaryIndexStart[k + 1] - colEntryStart
    IN  SCIPnetmatdecTryAddCol(d, k,
            Slice(tc.entrySecondaryIndex, colEntryStart, nonzeros),
            [e \in 0..(nonzeros - 1) |-> 1], nonzeros)

\* the call runColumnTestCase makes for column k of the test case
AddColOf(d, tc, k) ==
    LET colEntryStart == tc.primaryIndexStart[k]
        nonzeros == tc.primaryIndexStart[k + 1] - colEntryStart
    IN  SCIPnetmatdecTryAddCol(d, k,
            Slice(tc.entrySecondaryIndex, colEntryStart, nonzeros),
            Slice(tc.entryValue, colEntryStart, nonzeros), nonzeros)

\* the secondary indices of the entries of row or column k of the test case
IndicesOf(tc, k) ==
    {tc.entrySecondaryIndex[e] : e \in tc.primaryIndexStart[k]..(tc.primaryIndexStart[k + 1] - 1)}

\* one pass of the loop of runRowTestCase
RowLoop ==
    /\ pc = "loop"
    /\ mode = "row"
    /\ i < testCase.nrows
    /\ \E res \in {AddRowOf(dec, testCase, i)} :
           /\ isNetwork' = res.success
           /\ retcode' = res.retcode
           /\ referencedAbsent' = (IndicesOf(testCase, i) \ dec.colids # {})
           /\ IF res.success
              THEN \E chk \in {RowCaseCycles(res.dec, colWiseCase, i, 0)} :
                      /\ isMinimal' = (isMinimal /\ SCIPnetmatdecIsMinimal(res.dec))
                      /\ cycleIsCorrect' = (cycleIsCorrect /\ chk.ok)
                      /\ dec' = chk.dec
                      /\ i' = i + 1
                      /\ pc' = IF i + 1 < testCase.nrows THEN "loop" ELSE "done"
              ELSE /\ dec' = res.dec
                   /\ pc' = "done"
                   /\ UNCHANGED <<i, isMinimal, cycleIsCorrect>>
    /\ UNCHANGED <<nums, testCase, colWiseCase, mode, graph, ccvars, fivars>>

\* one pass of the loop of runColumnTestCase
ColLoop ==
    /\ pc = "loop"
    /\ mode = "col"
    /\ i < testCase.ncols
    /\ \E res \in {AddColOf(dec, testCase, i)} :
           /\ isNetwork' = res.success
           /\ retcode' = res.retcode
           /\ referencedAbsent' = (IndicesOf(testCase, i) \ dec.rowids # {})
           /\ IF res.success
              THEN \E chk \in {ColCaseCycles(res.dec, testCase, i, 0)} :
                      /\ isMinimal' = (isMinimal /\ SCIPnetmatdecIsMinimal(res.dec))
                      /\ cycleIsCorrect' = (cycleIsCorrect /\ chk.ok)
                      /\ dec' = chk.dec
                      /\ i' = i + 1
                      /\ pc' = IF i + 1 < testCase.ncols THEN "loop" ELSE "done"
              ELSE /\ dec' = res.dec
                   /\ pc' = "done"
                   /\ UNCHANGED <<i, isMinimal, cycleIsCorrect>>
    /\ UNCHANGED <<nums, testCase, colWiseCase, mode, graph, ccvars, fivars>>

Next == RowLoop \/ ColLoop

Spec == Init /\ [][Next]_vars

\* ------------------------------------------------------------------------
\* runRowTestCaseGraph and the tests on four rows and three columns
\* ------------------------------------------------------------------------

\* a faulty graph: every row arc is drawn between its node and the root
SCIPnetmatdecCreateDiGraphAsStar(d) ==
    [ nodes |-> NodesOf(d.rowids),
      arcs |-> {[kind |-> "row", id |-> r,
                 tail |-> IF d.up[r] THEN r + 1 ELSE 0,
                 head |-> IF d.up[r] THEN 0 ELSE r + 1] : r \in d.rowids}
                 \cup {[kind |-> "column", id |-> c,
                        tail |-> d.colarc[c][1], head |-> d.colarc[c][2]] : c \in d.colids} ]

\* SCIPnetmatdecCreateDiGraph(dec, blkmem, &graph): the directed multigraph
\* underlying the decomposition, every arc carrying the row or column it comes
\* from
SCIPnetmatdecCreateDiGraph(d) ==
    [ nodes |-> NodesOf(d.rowids),
      arcs |-> {[kind |-> "row", id |-> r,
                 tail |-> IF d.up[r] THEN r + 1 ELSE d.par[r],
                 head |-> IF d.up[r] THEN d.par[r] ELSE r + 1] : r \in d.rowids}
                 \cup {[kind |-> "column", id |-> c,
                        tail |-> d.colarc[c][1], head |-> d.colarc[c][2]] : c \in d.colids} ]

\* the size of the tests rowadd_singlerigid_*: four rows, three columns
SingleRigidNRows == 4

SingleRigidNCols == 3

\* the first three rows of rowadd_singlerigid_3 and rowadd_singlerigid_graph
SingleRigidRows == <<1, 0, 1,  1, 1, 0,  0, -1, 1>>

\* the strings of four rows whose first three rows are SingleRigidRows
SingleRigidStrings ==
    {[k \in 0..(SingleRigidNRows * SingleRigidNCols - 1) |->
         IF k < Len(SingleRigidRows) THEN SingleRigidRows[k + 1]
         ELSE last[k - Len(SingleRigidRows)]] :
       last \in [0..(SingleRigidNCols - 1) -> Coefs]}

\* the first three rows of rowadd_singlerigid_4 and rowadd_singlerigid_5
SingleRigid4Rows == <<1, 0, 1,  -1, -1, -1,  0, 1, 1>>

\* the strings of four rows whose first three rows are SingleRigid4Rows
SingleRigid4Strings ==
    {[k \in 0..(SingleRigidNRows * SingleRigidNCols - 1) |->
         IF k < Len(SingleRigid4Rows) THEN SingleRigid4Rows[k + 1]
         ELSE last[k - Len(SingleRigid4Rows)]] :
       last \in [0..(SingleRigidNCols - 1) -> Coefs]}

\* runRowTestCase on a test of four rows, or runRowTestCaseGraph on any test, up
\* to the loop
GraphInit ==
    /\ \E rows \in 1..SingleRigidNRows, cols \in 1..MaxCols :
          /\ \/ /\ rows <= MaxRows
                /\ mode = "graph"
                /\ nums \in [0..(rows * cols - 1) -> Coefs]
             \/ /\ rows = SingleRigidNRows /\ cols = SingleRigidNCols
                /\ mode \in {"row", "graph"}
                /\ nums \in SingleRigidStrings \cup SingleRigid4Strings
          /\ \E tc \in {stringToTestCase(nums, rows, cols)} :
                /\ testCase = tc
                /\ colWiseCase = transposeMatrixStorage(copyTestCase(tc))
          /\ dec = SCIPnetmatdecCreate(rows, cols)
    /\ i = 0
    /\ isNetwork = TRUE
    /\ retcode = "SCIP_OKAY"
    /\ isMinimal = TRUE
    /\ cycleIsCorrect = TRUE
    /\ referencedAbsent = FALSE
    /\ graph = <<>>
    /\ pc = "loop"
    /\ ComponentsIdle
    /\ ImplintIdle

\* one pass of the loop of runRowTestCaseGraph; assert(isNetwork) ends the run
GraphLoop ==
    /\ pc = "loop"
    /\ mode = "graph"
    /\ i < testCase.nrows
    /\ \E res \in {AddRowOf(dec, testCase, i)} :
           /\ isNetwork' = res.success
           /\ retcode' = res.retcode
           /\ referencedAbsent' = (IndicesOf(testCase, i) \ dec.colids # {})
           /\ dec' = res.dec
           /\ IF res.success
              THEN /\ i' = i + 1
                   /\ pc' = IF i + 1 < testCase.nrows THEN "loop" ELSE "graph"
              ELSE /\ pc' = "aborted"
                   /\ UNCHANGED i
    /\ UNCHANGED <<nums, testCase, colWiseCase, mode, isMinimal, cycleIsCorrect, graph,
                   ccvars, fivars>>

\* runRowTestCaseGraph after the loop: SCIPnetmatdecCreateDiGraph
CreateDiGraph ==
    /\ pc = "graph"
    /\ mode = "graph"
    /\ graph' = SCIPnetmatdecCreateDiGraph(dec)
    /\ pc' = "done"
    /\ UNCHANGED <<nums, testCase, colWiseCase, mode, i, dec, isNetwork, retcode,
                   isMinimal, cycleIsCorrect, referencedAbsent, ccvars, fivars>>

NextGraph == RowLoop \/ GraphLoop \/ CreateDiGraph

SpecGraph == GraphInit /\ [][NextGraph]_vars

\* ------------------------------------------------------------------------
\* presol_implint.c: the components of the continuous columns
\* ------------------------------------------------------------------------

\* number of rows of the matrices the presolver is run on
MaxMatrixRows == 2

\* number of columns of the matrices the presolver is run on
MaxMatrixCols == 3

VarTypes == {"SCIP_VARTYPE_CONTINUOUS", "SCIP_VARTYPE_INTEGER"}

\* the numbers of S in ascending order, as an array
AscendingArray(S) ==
    [k \in 0..(Cardinality(S) - 1) |-> CHOOSE x \in S : Cardinality({y \in S : y < x}) = k]

\* the SCIP_MATRIX with the nonzeros at `pattern` and the variable types `types`
MatrixOf(rows, cols, pattern, types) ==
    [ nrows |-> rows, ncols |-> cols,
      colidx |-> [c \in 0..(cols - 1) |->
                    AscendingArray({r \in 0..(rows - 1) : <<r, c>> \in pattern})],
      vartype |-> types ]

SCIPmatrixGetNRows(m) == m.nrows

SCIPmatrixGetNColumns(m) == m.ncols

\* SCIPvarGetType(SCIPmatrixGetVar(matrix, c))
SCIPmatrixGetVarType(m, c) == m.vartype[c]

SCIPmatrixGetColNNonzs(m, c) == Cardinality(DOMAIN m.colidx[c])

SCIPmatrixGetColIdxPtr(m, c) == m.colidx[c]

\* createMatrixComponents.  An array the function allocates without writing it
\* has no entry yet: a function with the empty domain.
createMatrixComponents(m) ==
    [ nmatrixrows |-> SCIPmatrixGetNRows(m),
      nmatrixcols |-> SCIPmatrixGetNColumns(m),
      coltype |-> [c \in 0..(SCIPmatrixGetNColumns(m) - 1) |-> SCIPmatrixGetVarType(m, c)],
      rowcomponent |-> [r \in 0..(SCIPmatrixGetNRows(m) - 1) |-> -1],
      colcomponent |-> [c \in 0..(SCIPmatrixGetNColumns(m) - 1) |-> -1],
      componentrows |-> <<>>,
      componentcols |-> <<>>,
      componentrowstart |-> <<>>,
      componentcolstart |-> <<>>,
      ncomponentrows |-> <<>>,
      ncomponentcols |-> <<>>,
      ncomponents |-> 0 ]

\* the first loop of disjointSetFind: down the tree to the root
RECURSIVE FindRoot(_, _)
FindRoot(ds, current) ==
    IF ds[current] >= 0 THEN FindRoot(ds, ds[current]) ELSE current

\* a faulty second loop: the path is left as it was
CompressPathNowhere(ds, current, root) == ds

\* the second loop of disjointSetFind: every node on the path is set to the root
RECURSIVE CompressPath(_, _, _)
CompressPath(ds, current, root) ==
    IF ds[current] >= 0
    THEN CompressPath([ds EXCEPT ![current] = root], ds[current], root)
    ELSE ds

\* a faulty find: one step up instead of the way to the root
disjointSetFindOneStep(ds, index) ==
    [ root |-> IF ds[index] >= 0 THEN ds[index] ELSE index, disjointset |-> ds ]

\* disjointSetFind(disjointset, index): the root, and the array as the call
\* leaves it
disjointSetFind(ds, index) ==
    LET root == FindRoot(ds, index)
    IN  [ root |-> root, disjointset |-> CompressPath(ds, index, root) ]

\* a faulty merge: the ranks are kept, the second root is not linked to the first
disjointSetMergeUnlinked(ds, first, second) ==
    LET firstRank == ds[first]
        secondRank == ds[second]
        swap == firstRank > secondRank
        newfirst == IF swap THEN second ELSE first
    IN  [ root |-> newfirst,
          disjointset |-> IF firstRank = secondRank
                          THEN [ds EXCEPT ![newfirst] = @ - 1] ELSE ds,
          asserted |-> ds[first] < 0 /\ ds[second] < 0 /\ first # second ]

\* a faulty merge: the first argument becomes the root whatever the ranks are
disjointSetMergeFirstStays(ds, first, second) ==
    [ root |-> first,
      disjointset |-> IF ds[first] = ds[second]
                      THEN [ds EXCEPT ![second] = first, ![first] = @ - 1]
                      ELSE [ds EXCEPT ![second] = first],
      asserted |-> ds[first] < 0 /\ ds[second] < 0 /\ first # second ]

\* disjointSetMerge(disjointset, first, second): the new root, the array as the
\* call leaves it, and whether its three assertions held
disjointSetMerge(ds, first, second) ==
    LET firstRank == ds[first]
        secondRank == ds[second]
        swap == firstRank > secondRank
        newfirst == IF swap THEN second ELSE first
        newsecond == IF swap THEN first ELSE second
        linked == [ds EXCEPT ![newsecond] = newfirst]
    IN  [ root |-> newfirst,
          disjointset |-> IF firstRank = secondRank
                          THEN [linked EXCEPT ![newfirst] = @ - 1] ELSE linked,
          asserted |-> ds[first] < 0 /\ ds[second] < 0 /\ first # second ]

\* one call of disjointSetFind as the trace keeps it: the argument, the array
\* before and after, the value returned
FindRecord(ds, index, found) ==
    [ op |-> "disjointSetFind", index |-> index, before |-> ds,
      after |-> found.disjointset, root |-> found.root ]

\* one call of disjointSetMerge as the trace keeps it: the arguments, the array
\* before and after, the value returned, whether the three assertions held
MergeRecord(ds, first, second, merged) ==
    [ op |-> "disjointSetMerge", first |-> first, second |-> second, before |-> ds,
      after |-> merged.disjointset, root |-> merged.root, asserted |-> merged.asserted ]

\* faulty prefix sums: the start of the component before is left out
ComponentStartOfLastCount(counts, k) ==
    IF k = 0 THEN 0 ELSE counts[k - 1]

\* the prefix sums of lines 284-290: where component k starts
RECURSIVE ComponentStart(_, _)
ComponentStart(counts, k) ==
    IF k = 0 THEN 0 ELSE ComponentStart(counts, k - 1) + counts[k - 1]

\* the loops of lines 301-320: the indices k..n-1 whose component is not
\* negative are written to the slices of their components
RECURSIVE FillSlices(_, _, _, _, _, _)
FillSlices(array, next, component, start, k, n) ==
    IF k >= n THEN [array |-> array, next |-> next]
    ELSE IF component[k] < 0 THEN FillSlices(array, next, component, start, k + 1, n)
    ELSE FillSlices(((start[component[k]] + next[component[k]]) :> k) @@ array,
                    [next EXCEPT ![component[k]] = @ + 1],
                    component, start, k + 1, n)

ComponentsInit ==
    /\ \E rows \in 1..MaxMatrixRows, cols \in 1..MaxMatrixCols :
          \E pattern \in SUBSET ((0..(rows - 1)) \X (0..(cols - 1))) :
             \E types \in [0..(cols - 1) -> VarTypes] :
                matrix = MatrixOf(rows, cols, pattern, types)
    /\ comp = createMatrixComponents(matrix)
    /\ disjointset = <<>>
    /\ representativecomponent = <<>>
    /\ ccCol = 0 /\ ccRow = 0 /\ ccEntry = 0 /\ colrep = 0 /\ dscalls = <<>>
    /\ ccpc = "start"
    /\ NetworkIdle
    /\ ImplintIdle

\* lines 216-222: every row and column is a set of its own
AllocDisjointSet ==
    /\ ccpc = "start"
    /\ disjointset' = [k \in 0..(comp.nmatrixcols + comp.nmatrixrows - 1) |-> -1]
    /\ ccCol' = 0
    /\ ccpc' = "union"
    /\ dscalls' = <<>>
    /\ UNCHANGED <<matrix, comp, representativecomponent, ccRow, ccEntry, colrep, netvars, fivars>>

\* lines 224-228: a column that is not continuous is passed over
SkipColumn ==
    /\ ccpc = "union"
    /\ ccCol < comp.nmatrixcols
    /\ comp.coltype[ccCol] # "SCIP_VARTYPE_CONTINUOUS"
    /\ ccCol' = ccCol + 1
    /\ dscalls' = <<>>
    /\ UNCHANGED <<matrix, comp, disjointset, representativecomponent, ccRow, ccEntry,
                   colrep, ccpc, netvars, fivars>>

\* lines 229-232: the representative of a continuous column
FindColumn ==
    /\ ccpc = "union"
    /\ ccCol < comp.nmatrixcols
    /\ comp.coltype[ccCol] = "SCIP_VARTYPE_CONTINUOUS"
    /\ \E found \in {disjointSetFind(disjointset, ccCol)} :
          /\ colrep' = found.root
          /\ disjointset' = found.disjointset
          /\ dscalls' = <<FindRecord(disjointset, ccCol, found)>>
    /\ ccEntry' = 0
    /\ ccpc' = "entries"
    /\ UNCHANGED <<matrix, comp, representativecomponent, ccCol, ccRow, netvars, fivars>>

\* lines 233-241: one nonzero of the column; its row is merged with the column
UnionEntry ==
    /\ ccpc = "entries"
    /\ ccEntry < SCIPmatrixGetColNNonzs(matrix, ccCol)
    /\ LET colrow == SCIPmatrixGetColIdxPtr(matrix, ccCol)[ccEntry]
           index == colrow + comp.nmatrixcols
       IN  \E found \in {disjointSetFind(disjointset, index)} :
              IF colrep # found.root
              THEN \E merged \in {disjointSetMerge(found.disjointset, colrep, found.root)} :
                      /\ colrep' = merged.root
                      /\ disjointset' = merged.disjointset
                      /\ dscalls' = <<FindRecord(disjointset, index, found),
                                      MergeRecord(found.disjointset, colrep, found.root, merged)>>
              ELSE /\ disjointset' = found.disjointset
                   /\ dscalls' = <<FindRecord(disjointset, index, found)>>
                   /\ UNCHANGED colrep
    /\ ccEntry' = ccEntry + 1
    /\ UNCHANGED <<matrix, comp, representativecomponent, ccCol, ccRow, ccpc, netvars, fivars>>

\* line 233, 224: the nonzeros of the column are through, on to the next column
EndColumn ==
    /\ ccpc = "entries"
    /\ ccEntry >= SCIPmatrixGetColNNonzs(matrix, ccCol)
    /\ ccCol' = ccCol + 1
    /\ ccpc' = "union"
    /\ dscalls' = <<>>
    /\ UNCHANGED <<matrix, comp, disjointset, representativecomponent, ccRow, ccEntry,
                   colrep, netvars, fivars>>

\* lines 244-251: no root has a component yet
BeginLabels ==
    /\ ccpc = "union"
    /\ ccCol >= comp.nmatrixcols
    /\ representativecomponent' =
          [k \in 0..(comp.nmatrixcols + comp.nmatrixrows - 1) |-> -1]
    /\ comp' = [comp EXCEPT !.ncomponents = 0]
    /\ ccCol' = 0
    /\ ccpc' = "columns"
    /\ dscalls' = <<>>
    /\ UNCHANGED <<matrix, disjointset, ccRow, ccEntry, colrep, netvars, fivars>>

\* lines 252-270: one column gets the component of its root, a new one if the
\* root has none
LabelColumn ==
    /\ ccpc = "columns"
    /\ ccCol < comp.nmatrixcols
    /\ IF comp.coltype[ccCol] # "SCIP_VARTYPE_CONTINUOUS"
       THEN /\ dscalls' = <<>>
            /\ UNCHANGED <<comp, disjointset, representativecomponent>>
       ELSE \E found \in {disjointSetFind(disjointset, ccCol)} :
               LET colroot == found.root
                   isnew == representativecomponent[colroot] < 0
                   component == IF isnew THEN comp.ncomponents
                                ELSE representativecomponent[colroot]
                   colcount == IF isnew THEN 0 ELSE comp.ncomponentcols[component]
               IN  /\ disjointset' = found.disjointset
                   /\ dscalls' = <<FindRecord(disjointset, ccCol, found)>>
                   /\ representativecomponent' =
                         [representativecomponent EXCEPT ![colroot] = component]
                   /\ comp' = [comp EXCEPT
                         !.ncomponents = IF isnew THEN @ + 1 ELSE @,
                         !.ncomponentrows = IF isnew THEN (component :> 0) @@ @ ELSE @,
                         !.ncomponentcols = (component :> (colcount + 1)) @@ @,
                         !.colcomponent[ccCol] = component]
    /\ ccCol' = ccCol + 1
    /\ UNCHANGED <<matrix, ccRow, ccEntry, colrep, ccpc, netvars, fivars>>

\* line 252, 271: the columns are through, on to the rows
BeginRows ==
    /\ ccpc = "columns"
    /\ ccCol >= comp.nmatrixcols
    /\ ccRow' = 0
    /\ ccpc' = "rows"
    /\ dscalls' = <<>>
    /\ UNCHANGED <<matrix, comp, disjointset, representativecomponent, ccCol, ccEntry,
                   colrep, netvars, fivars>>

\* lines 271-282: one row gets the component of its root, if the root has one
LabelRow ==
    /\ ccpc = "rows"
    /\ ccRow < comp.nmatrixrows
    /\ \E found \in {disjointSetFind(disjointset, ccRow + comp.nmatrixcols)} :
          LET component == representativecomponent[found.root]
          IN  /\ disjointset' = found.disjointset
              /\ dscalls' = <<FindRecord(disjointset, ccRow + comp.nmatrixcols, found)>>
              /\ comp' = IF component < 0 THEN comp
                         ELSE [comp EXCEPT
                                 !.rowcomponent[ccRow] = component,
                                 !.ncomponentrows[component] = @ + 1]
    /\ ccRow' = ccRow + 1
    /\ UNCHANGED <<matrix, representativecomponent, ccCol, ccEntry, colrep, ccpc, netvars, fivars>>

\* lines 283-336: the flat arrays of the rows and columns of each component
FillLayout ==
    /\ ccpc = "rows"
    /\ ccRow >= comp.nmatrixrows
    /\ IF comp.ncomponents # 0
       THEN LET ids == 0..(comp.ncomponents - 1)
                rowstart == [k \in ids |-> ComponentStart(comp.ncomponentrows, k)]
                colstart == [k \in ids |-> ComponentStart(comp.ncomponentcols, k)]
                zero == [k \in ids |-> 0]
            IN  \E cols \in {FillSlices(comp.componentcols, zero, comp.colcomponent,
                                        colstart, 0, comp.nmatrixcols)} :
                \E rows \in {FillSlices(comp.componentrows, zero, comp.rowcomponent,
                                        rowstart, 0, comp.nmatrixrows)} :
                   comp' = [comp EXCEPT
                              !.componentrowstart = rowstart,
                              !.componentcolstart = colstart,
                              !.componentcols = cols.array,
                              !.componentrows = rows.array]
       ELSE UNCHANGED comp
    /\ disjointset' = <<>>
    /\ representativecomponent' = <<>>
    /\ ccpc' = "done"
    /\ dscalls' = <<>>
    /\ UNCHANGED <<matrix, ccCol, ccRow, ccEntry, colrep, netvars, fivars>>

NextComponents ==
    \/ AllocDisjointSet
    \/ SkipColumn
    \/ FindColumn
    \/ UnionEntry
    \/ EndColumn
    \/ BeginLabels
    \/ LabelColumn
    \/ BeginRows
    \/ LabelRow
    \/ FillLayout

SpecComponents == ComponentsInit /\ [][NextComponents]_vars

\* ------------------------------------------------------------------------
\* presol_implint.c: presolExecImplint, computeMatrixStatistics and
\* findImpliedIntegers.  A double x is held as the integer 2 * x, so that the
\* half-integral numbers can be told from the integral ones.
\* ------------------------------------------------------------------------

\* the double 1.0
One == 2

\* the double 0.5
Half == 1

\* the double of the integer n
Double(n) == n * One

\* SCIPinfinity(scip).  SCIP's infinity is 1e20; here it is a number above every
\* finite number of the model.
SCIPinfinity == 1000000000

\* the 1e7 of line 399
LargeEntry == Double(10000000)

DEFAULT_COLUMNROWRATIO == Double(50)

DEFAULT_CONVERTINTEGERS == FALSE

ABS(x) == IF x < 0 THEN 0 - x ELSE x

SCIPisInfinity(x) == x >= SCIPinfinity

SCIPisIntegral(x) == x % One = 0

SCIPisFeasEQ(x, y) == x = y

\* the SCIP_MATRIX with the coefficients val, the variable types `types` and the
\* sides lhs and rhs, stored by columns and by rows
MatrixWithValues(rows, cols, val, types, lhs, rhs) ==
    LET pattern == {rc \in (0..(rows - 1)) \X (0..(cols - 1)) : val[rc] # 0}
        byCols == MatrixOf(rows, cols, pattern, types).colidx
        byRows == [r \in 0..(rows - 1) |->
                      AscendingArray({c \in 0..(cols - 1) : <<r, c>> \in pattern})]
    IN  [ nrows |-> rows, ncols |-> cols,
          colidx |-> byCols,
          colval |-> [c \in 0..(cols - 1) |->
                        [k \in DOMAIN byCols[c] |-> val[<<byCols[c][k], c>>]]],
          rowidx |-> byRows,
          rowval |-> [r \in 0..(rows - 1) |->
                        [k \in DOMAIN byRows[r] |-> val[<<r, byRows[r][k]>>]]],
          lhs |-> lhs, rhs |-> rhs,
          vartype |-> types ]

SCIPmatrixGetColValPtr(m, c) == m.colval[c]

SCIPmatrixGetRowNNonzs(m, r) == Cardinality(DOMAIN m.rowidx[r])

SCIPmatrixGetRowIdxPtr(m, r) == m.rowidx[r]

SCIPmatrixGetRowValPtr(m, r) == m.rowval[r]

SCIPmatrixGetRowLhs(m, r) == m.lhs[r]

SCIPmatrixGetRowRhs(m, r) == m.rhs[r]

\* SCIPgetNContVars(scip)
SCIPgetNContVars(types) ==
    Cardinality({c \in DOMAIN types : types[c] = "SCIP_VARTYPE_CONTINUOUS"})

\* faulty statistics: the sides of a row are not looked at
computeMatrixStatisticsWithoutSides(m, types) ==
    LET rows == 0..(SCIPmatrixGetNRows(m) - 1)
        lhs(r) == SCIPmatrixGetRowLhs(m, r)
        rhs(r) == SCIPmatrixGetRowRhs(m, r)
        cols(r) == SCIPmatrixGetRowIdxPtr(m, r)
        vals(r) == SCIPmatrixGetRowValPtr(m, r)
        J(r) == 0..(SCIPmatrixGetRowNNonzs(m, r) - 1)
        continuous(r, j) == types[cols(r)[j]] = "SCIP_VARTYPE_CONTINUOUS"
    IN  [ rownnonz |-> [r \in rows |-> SCIPmatrixGetRowNNonzs(m, r)],
          rowequality |-> [r \in rows |->
              /\ SCIPisFeasEQ(lhs(r), rhs(r))
              /\ ~(SCIPisInfinity(0 - lhs(r)) \/ SCIPisInfinity(rhs(r)))],
          rowncontinuous |-> [r \in rows |->
              Cardinality({j \in J(r) : continuous(r, j)})],
          rowncontinuouspmone |-> [r \in rows |->
              Cardinality({j \in J(r) : continuous(r, j) /\ ABS(vals(r)[j]) = One})],
          rowintegral |-> [r \in rows |->
              \A j \in J(r) : continuous(r, j) \/ SCIPisIntegral(vals(r)[j])],
          rowbadnumerics |-> [r \in rows |->
              \E j \in J(r) : ABS(vals(r)[j]) > LargeEntry] ]

\* computeMatrixStatistics; types[c] is SCIPvarGetType(SCIPmatrixGetVar(matrix, c))
computeMatrixStatistics(m, types) ==
    LET rows == 0..(SCIPmatrixGetNRows(m) - 1)
        lhs(r) == SCIPmatrixGetRowLhs(m, r)
        rhs(r) == SCIPmatrixGetRowRhs(m, r)
        cols(r) == SCIPmatrixGetRowIdxPtr(m, r)
        vals(r) == SCIPmatrixGetRowValPtr(m, r)
        J(r) == 0..(SCIPmatrixGetRowNNonzs(m, r) - 1)
        continuous(r, j) == types[cols(r)[j]] = "SCIP_VARTYPE_CONTINUOUS"
    IN  [ rownnonz |-> [r \in rows |-> SCIPmatrixGetRowNNonzs(m, r)],
          rowequality |-> [r \in rows |->
              /\ SCIPisFeasEQ(lhs(r), rhs(r))
              /\ ~(SCIPisInfinity(0 - lhs(r)) \/ SCIPisInfinity(rhs(r)))],
          rowncontinuous |-> [r \in rows |->
              Cardinality({j \in J(r) : continuous(r, j)})],
          rowncontinuouspmone |-> [r \in rows |->
              Cardinality({j \in J(r) : continuous(r, j) /\ ABS(vals(r)[j]) = One})],
          rowintegral |-> [r \in rows |->
              /\ (SCIPisInfinity(0 - lhs(r)) \/ SCIPisIntegral(lhs(r)))
              /\ (SCIPisInfinity(rhs(r)) \/ SCIPisIntegral(rhs(r)))
              /\ \A j \in J(r) : continuous(r, j) \/ SCIPisIntegral(vals(r)[j])],
          rowbadnumerics |-> [r \in rows |->
              \E j \in J(r) : ABS(vals(r)[j]) > LargeEntry] ]

\* lines 470-484: what the filter finds in one row
RowVerdict(st, row) ==
    IF st.rowncontinuous[row] # st.rowncontinuouspmone[row] THEN "nbadintegrality"
    ELSE IF ~st.rowintegral[row] THEN "nbadintegrality"
    ELSE IF st.rowbadnumerics[row] THEN "nbadnumerics"
    ELSE "okay"

\* lines 467-485: the rows componentrows[k..end-1] are looked at in order, up to
\* the first one the filter stops at
RECURSIVE FilterRows(_, _, _, _)
FilterRows(cm, st, k, end) ==
    IF k >= end THEN "okay"
    ELSE IF RowVerdict(st, cm.componentrows[k]) # "okay"
         THEN RowVerdict(st, cm.componentrows[k])
         ELSE FilterRows(cm, st, k + 1, end)

\* the positions j..n-1 of a row whose column is continuous, in order
RECURSIVE ContinuousPositions(_, _, _, _)
ContinuousPositions(rowcols, types, j, n) ==
    IF j >= n THEN <<>>
    ELSE (IF types[rowcols[j]] = "SCIP_VARTYPE_CONTINUOUS" THEN <<j>> ELSE <<>>)
           \o ContinuousPositions(rowcols, types, j + 1, n)

\* a faulty copy: every nonzero of the row is taken, whatever its column
ContinuousEntriesUnfiltered(m, types, row) ==
    [ idx |-> SCIPmatrixGetRowIdxPtr(m, row),
      val |-> SCIPmatrixGetRowValPtr(m, row),
      n |-> SCIPmatrixGetRowNNonzs(m, row),
      asserted |-> TRUE ]

\* a faulty copy: the last continuous nonzero of the row is not counted
ContinuousEntriesButLast(m, types, row) ==
    LET nrownnoz == SCIPmatrixGetRowNNonzs(m, row)
        rowcols == SCIPmatrixGetRowIdxPtr(m, row)
        rowvals == SCIPmatrixGetRowValPtr(m, row)
        at == ContinuousPositions(rowcols, types, 0, nrownnoz)
        ncontnonz == IF Len(at) > 0 THEN Len(at) - 1 ELSE 0
    IN  [ idx |-> [k \in 0..(ncontnonz - 1) |-> rowcols[at[k + 1]]],
          val |-> [k \in 0..(ncontnonz - 1) |-> rowvals[at[k + 1]]],
          n |-> ncontnonz,
          asserted |-> \A k \in 1..ncontnonz : ABS(rowvals[at[k]]) = One ]

\* lines 503-517 and 546-560: the nonzeros of the row in continuous columns,
\* as they stand in tempIdxArray and tempValArray; asserted tells whether every
\* assert(ABS(rowvals[j]) == 1.0) held
ContinuousEntries(m, types, row) ==
    LET nrownnoz == SCIPmatrixGetRowNNonzs(m, row)
        rowcols == SCIPmatrixGetRowIdxPtr(m, row)
        rowvals == SCIPmatrixGetRowValPtr(m, row)
        at == ContinuousPositions(rowcols, types, 0, nrownnoz)
        ncontnonz == Len(at)
    IN  [ idx |-> [k \in 0..(ncontnonz - 1) |-> rowcols[at[k + 1]]],
          val |-> [k \in 0..(ncontnonz - 1) |-> rowvals[at[k + 1]]],
          n |-> ncontnonz,
          asserted |-> \A k \in 1..ncontnonz : ABS(rowvals[at[k]]) = One ]

\* lines 526-529 and 570-573: the column as the matrix stores it
ColumnEntries(m, col) ==
    [ idx |-> SCIPmatrixGetColIdxPtr(m, col),
      val |-> SCIPmatrixGetColValPtr(m, col),
      n |-> SCIPmatrixGetColNNonzs(m, col),
      asserted |-> TRUE ]

\* SCIPnetmatdecTryAddRow with the values given as doubles
TryAddRowOfDoubles(d, row, nonzcols, nonzvals, nnonzs) ==
    IF \E k \in 0..(nnonzs - 1) : ABS(nonzvals[k]) # One
    THEN [ retcode |-> "SCIP_ERROR", success |-> FALSE, dec |-> d ]
    ELSE SCIPnetmatdecTryAddRow(d, row, nonzcols,
             [k \in 0..(nnonzs - 1) |-> nonzvals[k] \div One], nnonzs)

\* SCIPnetmatdecTryAddCol with the values given as doubles
TryAddColOfDoubles(d, col, nonzrows, nonzvals, nnonzs) ==
    IF \E k \in 0..(nnonzs - 1) : ABS(nonzvals[k]) # One
    THEN [ retcode |-> "SCIP_ERROR", success |-> FALSE, dec |-> d ]
    ELSE SCIPnetmatdecTryAddCol(d, col, nonzrows,
             [k \in 0..(nnonzs - 1) |-> nonzvals[k] \div One], nnonzs)

\* SCIPnetmatdecRemoveComponent(dec, componentrows, nrows, componentcols, ncols):
\* the rows and columns leave the decomposition
SCIPnetmatdecRemoveComponent(d, componentrows, nrows, componentcols, ncols) ==
    LET gonerows == {componentrows[k] : k \in 0..(nrows - 1)}
        gonecols == {componentcols[k] : k \in 0..(ncols - 1)}
        val == [rc \in DOMAIN d.val |->
                  IF rc[1] \in gonerows \/ rc[2] \in gonecols THEN 0 ELSE d.val[rc]]
    IN  Decompose(d, d.rowids \ gonerows, d.colids \ gonecols, val).dec

\* a faulty start: the rows of every component are taken from the front of
\* componentrows
StartRowAtFront(cm, k) == 0

\* the rows and columns of component k
StartRow(cm, k) == cm.componentrowstart[k]

NRows(cm, k) == cm.ncomponentrows[k]

StartCol(cm, k) == cm.componentcolstart[k]

NCols(cm, k) == cm.ncomponentcols[k]

\* a faulty test: the rows are taken also when the two sides are equal
PrimaryByRowsWhenEqual(pd, cm, k) ==
    NRows(cm, k) * pd.columnrowratio <= Double(NCols(cm, k))

\* line 499: the rows of the component are added to dec, not its columns
PrimaryByRows(pd, cm, k) == NRows(cm, k) * pd.columnrowratio < Double(NCols(cm, k))

\* line 542: the rows of the component are added to transdec, not its columns
TransposedByRows(pd, cm, k) == Double(NRows(cm, k)) < NCols(cm, k) * pd.columnrowratio

\* lines 534-537: the component leaves dec
RemoveFromPrimary(d, cm, k) ==
    LET rows == Slice(cm.componentrows, StartRow(cm, k), NRows(cm, k))
        cols == Slice(cm.componentcols, StartCol(cm, k), NCols(cm, k))
    IN  [ dec |-> SCIPnetmatdecRemoveComponent(d, rows, NRows(cm, k), cols, NCols(cm, k)),
          componentrows |-> rows, nrows |-> NRows(cm, k),
          componentcols |-> cols, ncols |-> NCols(cm, k) ]

\* a faulty removal: the rows and columns are handed over as they are to dec
RemoveFromTransposedUnswapped(d, cm, k) == RemoveFromPrimary(d, cm, k)

\* lines 578-582: the component leaves transdec, its columns as the rows
RemoveFromTransposed(d, cm, k) ==
    LET rows == Slice(cm.componentcols, StartCol(cm, k), NCols(cm, k))
        cols == Slice(cm.componentrows, StartRow(cm, k), NRows(cm, k))
    IN  [ dec |-> SCIPnetmatdecRemoveComponent(d, rows, NCols(cm, k), cols, NRows(cm, k)),
          componentrows |-> rows, nrows |-> NCols(cm, k),
          componentcols |-> cols, ncols |-> NRows(cm, k) ]

\* one SCIPnetmatdecRemoveComponent call, as it is kept in removals; ncalls is
\* the number of SCIPnetmatdecTryAddRow/Col calls made before it
RemovalRecord(on, k, rem) ==
    [ dec |-> on, component |-> k,
      componentrows |-> rem.componentrows, nrows |-> rem.nrows,
      componentcols |-> rem.componentcols, ncols |-> rem.ncols,
      ncalls |-> Len(calls) ]

\* one call, as it is kept in calls
CallRecord(on, op, id, e, k, res) ==
    [ dec |-> on, op |-> op, id |-> id, nonzidx |-> e.idx, nonzvals |-> e.val,
      nnonzs |-> e.n, component |-> k, success |-> res.success,
      retcode |-> res.retcode, asserted |-> e.asserted ]

NoTally ==
    [ planarcomponents |-> 0, goodcomponents |-> 0, nbadnumerics |-> 0,
      nbadintegrality |-> 0, nnonnetwork |-> 0, beforechanged |-> 0 ]

\* the matrices the presolver is run on ---------------------------------

\* the columnrowratio and convertintegers settings the presolver is run with
ParamSettings ==
    {[columnrowratio |-> ratio, convertintegers |-> conv] :
        ratio \in {Double(0), Double(1), DEFAULT_COLUMNROWRATIO},
        conv \in {DEFAULT_CONVERTINTEGERS}}
      \cup {[columnrowratio |-> DEFAULT_COLUMNROWRATIO, convertintegers |-> TRUE]}

DefaultSettings ==
    [columnrowratio |-> DEFAULT_COLUMNROWRATIO, convertintegers |-> DEFAULT_CONVERTINTEGERS]

\* coefficients that are not 1 or -1: 2, 0.5 and one above 1e7
OddValues == {Double(2), Half, LargeEntry + One}

\* sides other than the equation with right-hand side 0: an inequality in either
\* direction, and sides that are not integral
OddSides ==
    {<<0 - SCIPinfinity, One>>, <<0, SCIPinfinity>>, <<Half, Half>>,
     <<0 - SCIPinfinity, Half>>}

Cells(rows, cols) == (0..(rows - 1)) \X (0..(cols - 1))

\* the tree arcs against the other arcs of the complete bipartite graph on
\* three and three nodes, transposed: not a network matrix, its transpose is one
CographicRows ==
    << <<-1, 1, 0, 1, 0>>,
       <<-1, 0, 1, 1, 0>>,
       <<-1, 1, 0, 0, 1>>,
       <<-1, 0, 1, 0, 1>> >>

CographicMatrix ==
    MatrixWithValues(4, 5,
        [rc \in Cells(4, 5) |-> Double(CographicRows[rc[1] + 1][rc[2] + 1])],
        [c \in 0..4 |-> "SCIP_VARTYPE_CONTINUOUS"],
        [r \in 0..3 |-> 0], [r \in 0..3 |-> 0])

\* a problem in presolving that is a complete, feasible MILP: nothing keeps the
\* presolver from running
MilpInPresolving ==
    [ stage |-> "SCIP_STAGE_PRESOLVING", inProbing |-> FALSE, nlpEnabled |-> FALSE,
      stopped |-> FALSE, nactivepricers |-> 0,
      initialized |-> TRUE, complete |-> TRUE, infeasible |-> FALSE ]

\* every combination of answers: SCIPgetStage, SCIPinProbing, SCIPisNLPEnabled,
\* SCIPisStopped, SCIPgetNActivePricers, and the three flags SCIPmatrixCreate
\* sets
ScipAnswers ==
    [ stage : {"SCIP_STAGE_PRESOLVING", "SCIP_STAGE_SOLVING"}, inProbing : BOOLEAN,
      nlpEnabled : BOOLEAN, stopped : BOOLEAN, nactivepricers : {0, 1},
      initialized : BOOLEAN, complete : BOOLEAN, infeasible : BOOLEAN ]

\* lines 723 and 728: the conditions under which the presolver does not run
NotToRun(answers) ==
    \/ answers.stage # "SCIP_STAGE_PRESOLVING" \/ answers.inProbing \/ answers.nlpEnabled
    \/ answers.stopped \/ answers.nactivepricers > 0

\* line 737: no candidate variables
NoCandidates(settings, types) ==
    ~settings.convertintegers /\ SCIPgetNContVars(types) = 0

\* a faulty exit: the matrix is not freed
FreeNever(initialized) == IF initialized THEN "allocated" ELSE "none"

\* lines 756-759 and 767-770: SCIPmatrixFree if the matrix was initialized
FreeIfInitialized(initialized) == IF initialized THEN "freed" ELSE "none"

\* lines 788-799: the result of a run that went through findImpliedIntegers
ResultOfRun(beforechanged, afterchanged) ==
    IF afterchanged = beforechanged THEN "SCIP_DIDNOTFIND" ELSE "SCIP_SUCCESS"

ImplintInit ==
    /\ \/ \E rows \in 1..MaxMatrixRows, cols \in 1..MaxMatrixCols :
          \E types \in [0..(cols - 1) -> VarTypes] :
          \E val \in [Cells(rows, cols) -> {0, One, 0 - One}] :
             LET zero == [r \in 0..(rows - 1) |-> 0]
                 negative == {rc \in Cells(rows, cols) : val[rc] < 0}
             IN  \/ /\ Cardinality(negative) <= 1
                    /\ presoldata \in ParamSettings
                    /\ matrix = MatrixWithValues(rows, cols, val, types, zero, zero)
                 \/ /\ negative = {}
                    /\ presoldata = DefaultSettings
                    /\ \E rc \in Cells(rows, cols), odd \in OddValues :
                          /\ val[rc] # 0
                          /\ matrix = MatrixWithValues(rows, cols,
                                         [val EXCEPT ![rc] = odd], types, zero, zero)
                 \/ /\ negative = {}
                    /\ presoldata = DefaultSettings
                    /\ \E r \in 0..(rows - 1), sides \in OddSides :
                          matrix = MatrixWithValues(rows, cols, val, types,
                                      [zero EXCEPT ![r] = sides[1]],
                                      [zero EXCEPT ![r] = sides[2]])
       \/ /\ presoldata = DefaultSettings
          /\ matrix = CographicMatrix
    /\ vartype = matrix.vartype
    /\ stats = <<>> /\ decPrimary = <<>> /\ transdec = <<>>
    /\ fiComponent = 0 /\ fiIndex = 0
    /\ componentnetwork = TRUE /\ componenttransnetwork = TRUE
    /\ tally = <<>> /\ nchgvartypes = 0 /\ result = "SCIP_DIDNOTRUN"
    /\ calls = <<>>
    /\ removals = <<>>
    /\ \/ scip = MilpInPresolving
       \/ /\ presoldata.columnrowratio = DEFAULT_COLUMNROWRATIO
          /\ matrix.nrows = 1 /\ matrix.ncols = 1
          /\ \E types \in [{0} -> VarTypes] :
                matrix = MatrixWithValues(1, 1, [rc \in Cells(1, 1) |-> One], types,
                                          [r \in {0} |-> 0], [r \in {0} |-> 0])
          /\ scip \in ScipAnswers
    /\ matrixalloc = "none"
    /\ fipc = "exec"
    /\ comp = <<>> /\ disjointset = <<>> /\ representativecomponent = <<>>
    /\ ccCol = 0 /\ ccRow = 0 /\ ccEntry = 0 /\ colrep = 0 /\ dscalls = <<>>
    /\ ccpc = "idle"
    /\ NetworkIdle

\* presolExecImplint, lines 719-731: not in presolving, probing, NLP enabled,
\* stopped or active pricers
PresolExecDidNotRun ==
    /\ fipc = "exec"
    /\ NotToRun(scip)
    /\ result' = "SCIP_DIDNOTRUN"
    /\ fipc' = "returned"
    /\ UNCHANGED <<presoldata, scip, matrixalloc, vartype, stats, decPrimary, transdec,
                   fiComponent, fiIndex, componentnetwork, componenttransnetwork, tally,
                   nchgvartypes, calls, removals, ccvars, netvars>>

\* presolExecImplint, lines 719-740: nothing to do without continuous variables,
\* unless convertintegers is set
PresolExecReturnEarly ==
    /\ fipc = "exec"
    /\ ~NotToRun(scip)
    /\ NoCandidates(presoldata, vartype)
    /\ result' = "SCIP_DIDNOTFIND"
    /\ fipc' = "returned"
    /\ UNCHANGED <<presoldata, scip, matrixalloc, vartype, stats, decPrimary, transdec, fiComponent, fiIndex,
                   componentnetwork, componenttransnetwork, tally, nchgvartypes, calls,
                   removals, ccvars, netvars>>

\* presolExecImplint, lines 742-762: SCIPmatrixCreate reports infeasibility
PresolExecCutoff ==
    /\ fipc = "exec"
    /\ ~NotToRun(scip)
    /\ ~NoCandidates(presoldata, vartype)
    /\ scip.infeasible
    /\ matrixalloc' = FreeIfInitialized(scip.initialized)
    /\ result' = "SCIP_CUTOFF"
    /\ fipc' = "returned"
    /\ UNCHANGED <<presoldata, scip, vartype, stats, decPrimary, transdec,
                   fiComponent, fiIndex, componentnetwork, componenttransnetwork, tally,
                   nchgvartypes, calls, removals, ccvars, netvars>>

\* presolExecImplint, lines 742-775: the matrix is not initialized or not
\* complete
PresolExecNotMilp ==
    /\ fipc = "exec"
    /\ ~NotToRun(scip)
    /\ ~NoCandidates(presoldata, vartype)
    /\ ~scip.infeasible
    /\ ~(scip.initialized /\ scip.complete)
    /\ matrixalloc' = FreeIfInitialized(scip.initialized)
    /\ result' = "SCIP_DIDNOTFIND"
    /\ fipc' = "returned"
    /\ UNCHANGED <<presoldata, scip, vartype, stats, decPrimary, transdec,
                   fiComponent, fiIndex, componentnetwork, componenttransnetwork, tally,
                   nchgvartypes, calls, removals, ccvars, netvars>>

\* presolExecImplint, lines 742-781: the matrix is there; createMatrixComponents
\* and computeMatrixStatistics; computeContinuousComponents is next
PresolExecBegin ==
    /\ fipc = "exec"
    /\ ~NotToRun(scip)
    /\ ~NoCandidates(presoldata, vartype)
    /\ ~scip.infeasible
    /\ scip.initialized /\ scip.complete
    /\ matrixalloc' = "allocated"
    /\ result' = "SCIP_DIDNOTFIND"
    /\ tally' = [NoTally EXCEPT !.beforechanged = nchgvartypes]
    /\ comp' = createMatrixComponents(matrix)
    /\ stats' = computeMatrixStatistics(matrix, vartype)
    /\ ccpc' = "start"
    /\ fipc' = "components"
    /\ UNCHANGED <<presoldata, scip, vartype, decPrimary, transdec, fiComponent, fiIndex,
                   componentnetwork, componenttransnetwork, nchgvartypes, calls,
                   removals, matrix, disjointset, representativecomponent, ccCol, ccRow, ccEntry,
                   colrep, dscalls, netvars>>

\* findImpliedIntegers, lines 442-461: the two decompositions are created
FindImpliedBegin ==
    /\ fipc = "components"
    /\ ccpc = "done"
    /\ decPrimary' = SCIPnetmatdecCreate(comp.nmatrixrows, comp.nmatrixcols)
    /\ transdec' = SCIPnetmatdecCreate(comp.nmatrixcols, comp.nmatrixrows)
    /\ fiComponent' = 0
    /\ fipc' = "filter"
    /\ UNCHANGED <<presoldata, scip, matrixalloc, vartype, stats, fiIndex, componentnetwork,
                   componenttransnetwork, tally, nchgvartypes, result, calls,
                   removals, ccvars, netvars>>

\* lines 462-493: the filter on the rows of the component; a component that
\* does not pass is left
FilterComponent ==
    /\ fipc = "filter"
    /\ fiComponent < comp.ncomponents
    /\ \E verdict \in {FilterRows(comp, stats, StartRow(comp, fiComponent),
                                  StartRow(comp, fiComponent) + NRows(comp, fiComponent))} :
          IF verdict # "okay"
          THEN /\ tally' = [tally EXCEPT ![verdict] = @ + 1]
               /\ fiComponent' = fiComponent + 1
               /\ UNCHANGED <<fiIndex, componentnetwork, fipc>>
          ELSE /\ componentnetwork' = TRUE
               /\ fiIndex' = IF PrimaryByRows(presoldata, comp, fiComponent)
                             THEN StartRow(comp, fiComponent)
                             ELSE StartCol(comp, fiComponent)
               /\ fipc' = "primary"
               /\ UNCHANGED <<tally, fiComponent>>
    /\ UNCHANGED <<presoldata, scip, matrixalloc, vartype, stats, decPrimary, transdec,
                   componenttransnetwork, nchgvartypes, result, calls, removals, ccvars, netvars>>

\* lines 500-520: one row of the component is added to dec
PrimaryAddRow ==
    /\ fipc = "primary"
    /\ PrimaryByRows(presoldata, comp, fiComponent)
    /\ fiIndex < StartRow(comp, fiComponent) + NRows(comp, fiComponent)
    /\ componentnetwork
    /\ LET row == comp.componentrows[fiIndex]
       IN  \E e \in {ContinuousEntries(matrix, vartype, row)} :
           \E res \in {TryAddRowOfDoubles(decPrimary, row, e.idx, e.val, e.n)} :
              /\ calls' = Append(calls, CallRecord("dec", "SCIPnetmatdecTryAddRow", row, e,
                                                   fiComponent, res))
              /\ IF res.retcode = "SCIP_OKAY" /\ e.asserted
                 THEN /\ decPrimary' = res.dec
                      /\ componentnetwork' = res.success
                      /\ fiIndex' = fiIndex + 1
                      /\ UNCHANGED fipc
                 ELSE /\ fipc' = "failed"
                      /\ UNCHANGED <<decPrimary, componentnetwork, fiIndex>>
    /\ UNCHANGED <<presoldata, scip, matrixalloc, vartype, stats, transdec, fiComponent,
                   componenttransnetwork, tally, nchgvartypes, result, removals, ccvars, netvars>>

\* lines 524-531: one column of the component is added to dec
PrimaryAddCol ==
    /\ fipc = "primary"
    /\ ~PrimaryByRows(presoldata, comp, fiComponent)
    /\ fiIndex < StartCol(comp, fiComponent) + NCols(comp, fiComponent)
    /\ componentnetwork
    /\ LET col == comp.componentcols[fiIndex]
       IN  \E e \in {ColumnEntries(matrix, col)} :
           \E res \in {TryAddColOfDoubles(decPrimary, col, e.idx, e.val, e.n)} :
              /\ calls' = Append(calls, CallRecord("dec", "SCIPnetmatdecTryAddCol", col, e,
                                                   fiComponent, res))
              /\ IF res.retcode = "SCIP_OKAY"
                 THEN /\ decPrimary' = res.dec
                      /\ componentnetwork' = res.success
                      /\ fiIndex' = fiIndex + 1
                      /\ UNCHANGED fipc
                 ELSE /\ fipc' = "failed"
                      /\ UNCHANGED <<decPrimary, componentnetwork, fiIndex>>
    /\ UNCHANGED <<presoldata, scip, matrixalloc, vartype, stats, transdec, fiComponent,
                   componenttransnetwork, tally, nchgvartypes, result, removals, ccvars, netvars>>

\* lines 534-542: the loop on dec is through; a component that was not accepted
\* leaves dec; transdec is next
PrimaryEnd ==
    /\ fipc = "primary"
    /\ ~(componentnetwork
          /\ fiIndex < (IF PrimaryByRows(presoldata, comp, fiComponent)
                        THEN StartRow(comp, fiComponent) + NRows(comp, fiComponent)
                        ELSE StartCol(comp, fiComponent) + NCols(comp, fiComponent)))
    /\ IF ~componentnetwork
       THEN \E rem \in {RemoveFromPrimary(decPrimary, comp, fiComponent)} :
               /\ decPrimary' = rem.dec
               /\ removals' = Append(removals, RemovalRecord("dec", fiComponent, rem))
       ELSE UNCHANGED <<decPrimary, removals>>
    /\ componenttransnetwork' = TRUE
    /\ fiIndex' = IF TransposedByRows(presoldata, comp, fiComponent)
                  THEN StartRow(comp, fiComponent)
                  ELSE StartCol(comp, fiComponent)
    /\ fipc' = "transposed"
    /\ UNCHANGED <<presoldata, scip, matrixalloc, vartype, stats, transdec, fiComponent, componentnetwork,
                   tally, nchgvartypes, result, calls, ccvars, netvars>>

\* lines 543-564: one row of the component is added to transdec, as a column
TransposedAddCol ==
    /\ fipc = "transposed"
    /\ TransposedByRows(presoldata, comp, fiComponent)
    /\ fiIndex < StartRow(comp, fiComponent) + NRows(comp, fiComponent)
    /\ componenttransnetwork
    /\ LET row == comp.componentrows[fiIndex]
       IN  \E e \in {ContinuousEntries(matrix, vartype, row)} :
           \E res \in {TryAddColOfDoubles(transdec, row, e.idx, e.val, e.n)} :
              /\ calls' = Append(calls, CallRecord("transdec", "SCIPnetmatdecTryAddCol", row,
                                                   e, fiComponent, res))
              /\ IF res.retcode = "SCIP_OKAY" /\ e.asserted
                 THEN /\ transdec' = res.dec
                      /\ componenttransnetwork' = res.success
                      /\ fiIndex' = fiIndex + 1
                      /\ UNCHANGED fipc
                 ELSE /\ fipc' = "failed"
                      /\ UNCHANGED <<transdec, componenttransnetwork, fiIndex>>
    /\ UNCHANGED <<presoldata, scip, matrixalloc, vartype, stats, decPrimary, fiComponent, componentnetwork,
                   tally, nchgvartypes, result, removals, ccvars, netvars>>

\* lines 568-575: one column of the component is added to transdec, as a row
TransposedAddRow ==
    /\ fipc = "transposed"
    /\ ~TransposedByRows(presoldata, comp, fiComponent)
    /\ fiIndex < StartCol(comp, fiComponent) + NCols(comp, fiComponent)
    /\ componenttransnetwork
    /\ LET col == comp.componentcols[fiIndex]
       IN  \E e \in {ColumnEntries(matrix, col)} :
           \E res \in {TryAddRowOfDoubles(transdec, col, e.idx, e.val, e.n)} :
              /\ calls' = Append(calls, CallRecord("transdec", "SCIPnetmatdecTryAddRow", col,
                                                   e, fiComponent, res))
              /\ IF res.retcode = "SCIP_OKAY"
                 THEN /\ transdec' = res.dec
                      /\ componenttransnetwork' = res.success
                      /\ fiIndex' = fiIndex + 1
                      /\ UNCHANGED fipc
                 ELSE /\ fipc' = "failed"
                      /\ UNCHANGED <<transdec, componenttransnetwork, fiIndex>>
    /\ UNCHANGED <<presoldata, scip, matrixalloc, vartype, stats, decPrimary, fiComponent, componentnetwork,
                   tally, nchgvartypes, result, removals, ccvars, netvars>>

\* a faulty loop: the last column of the component keeps its type
RECURSIVE ChangeVarTypesButLast(_, _, _, _)
ChangeVarTypesButLast(types, cm, k, end) ==
    IF k >= end - 1 THEN types
    ELSE ChangeVarTypesButLast(
            [types EXCEPT ![cm.componentcols[k]] = "SCIP_VARTYPE_IMPLINT"],
            cm, k + 1, end)

\* lines 592-600: SCIPchgVarType to SCIP_VARTYPE_IMPLINT for the columns
\* componentcols[k..end-1]
RECURSIVE ChangeVarTypes(_, _, _, _)
ChangeVarTypes(types, cm, k, end) ==
    IF k >= end THEN types
    ELSE ChangeVarTypes([types EXCEPT ![cm.componentcols[k]] = "SCIP_VARTYPE_IMPLINT"],
                        cm, k + 1, end)

\* a faulty test: the component is given up as soon as dec did not accept it
ComponentDiscardedWhenPrimaryRejects(network, transnetwork) == ~network

\* a faulty test: one decomposition that does not accept the component is enough
\* to leave it
ComponentDiscardedOnAnyReject(network, transnetwork) == ~network \/ ~transnetwork

\* line 584: the component is left when neither dec nor transdec accepted it
ComponentDiscarded(network, transnetwork) == ~network /\ ~transnetwork

\* lines 578-601: the loop on transdec is through; a component that was not
\* accepted leaves transdec; a component that dec or transdec accepted has its
\* columns made implied integer
EndComponent ==
    /\ fipc = "transposed"
    /\ ~(componenttransnetwork
          /\ fiIndex < (IF TransposedByRows(presoldata, comp, fiComponent)
                        THEN StartRow(comp, fiComponent) + NRows(comp, fiComponent)
                        ELSE StartCol(comp, fiComponent) + NCols(comp, fiComponent)))
    /\ IF ~componenttransnetwork
       THEN \E rem \in {RemoveFromTransposed(transdec, comp, fiComponent)} :
               /\ transdec' = rem.dec
               /\ removals' = Append(removals, RemovalRecord("transdec", fiComponent, rem))
       ELSE UNCHANGED <<transdec, removals>>
    /\ IF ComponentDiscarded(componentnetwork, componenttransnetwork)
       THEN /\ tally' = [tally EXCEPT !.nnonnetwork = @ + 1]
            /\ UNCHANGED <<vartype, nchgvartypes>>
       ELSE /\ tally' = [tally EXCEPT
                  !.goodcomponents = @ + 1,
                  !.planarcomponents =
                      IF componentnetwork /\ componenttransnetwork THEN @ + 1 ELSE @]
            /\ vartype' = ChangeVarTypes(vartype, comp, StartCol(comp, fiComponent),
                              StartCol(comp, fiComponent) + NCols(comp, fiComponent))
            /\ nchgvartypes' = nchgvartypes + NCols(comp, fiComponent)
    /\ fiComponent' = fiComponent + 1
    /\ fipc' = "filter"
    /\ UNCHANGED <<presoldata, scip, matrixalloc, stats, decPrimary, fiIndex, componentnetwork,
                   componenttransnetwork, result, calls, ccvars, netvars>>

\* lines 602-613 and 784-803: the components are through; the decompositions
\* are freed and the result is set
FindImpliedEnd ==
    /\ fipc = "filter"
    /\ fiComponent >= comp.ncomponents
    /\ decPrimary' = <<>>
    /\ transdec' = <<>>
    /\ result' = ResultOfRun(tally.beforechanged, nchgvartypes)
    /\ matrixalloc' = "freed"
    /\ fipc' = "returned"
    /\ UNCHANGED <<presoldata, scip, vartype, stats, fiComponent, fiIndex, componentnetwork,
                   componenttransnetwork, tally, nchgvartypes, calls, removals, ccvars, netvars>>

NextImplint ==
    \/ PresolExecDidNotRun
    \/ PresolExecReturnEarly
    \/ PresolExecCutoff
    \/ PresolExecNotMilp
    \/ PresolExecBegin
    \/ AllocDisjointSet
    \/ SkipColumn
    \/ FindColumn
    \/ UnionEntry
    \/ EndColumn
    \/ BeginLabels
    \/ LabelColumn
    \/ BeginRows
    \/ LabelRow
    \/ FillLayout
    \/ FindImpliedBegin
    \/ FilterComponent
    \/ PrimaryAddRow
    \/ PrimaryAddCol
    \/ PrimaryEnd
    \/ TransposedAddCol
    \/ TransposedAddRow
    \/ EndComponent
    \/ FindImpliedEnd

SpecImplint == ImplintInit /\ [][NextImplint]_vars

\* ------------------------------------------------------------------------
\* Network matrices, by their definition: there is a directed tree whose arcs
\* are the rows such that every column is the signed incidence vector of a
\* directed path of the tree.
\* ------------------------------------------------------------------------

\* the nodes joined to the nodes S by the arcs g
RECURSIVE Joined(_, _, _)
Joined(g, R, S) ==
    LET more == S \cup {g[r][1] : r \in {q \in R : g[q][2] \in S}}
                  \cup {g[r][2] : r \in {q \in R : g[q][1] \in S}}
    IN  IF more = S THEN S ELSE Joined(g, R, more)

\* the directed trees on the nodes 0..|R| with the rows R as arcs: g[r] is the
\* pair <<tail, head>> of arc r.  The names of the nodes mean nothing, so the
\* lowest arc is laid between the nodes 0 and 1.
IncidenceTrees(R) ==
    LET N == 0..Cardinality(R)
    IN  {g \in [R -> {e \in N \X N : e[1] # e[2]}] :
            /\ \A r \in R : (\A q \in R : r <= q) => g[r] \in {<<0, 1>>, <<1, 0>>}
            /\ Joined(g, R, {0}) = N}

\* what the arcs taken along v add up to at a node: +1 where the walk leaves,
\* -1 where it arrives
Divergence(g, R, v, node) ==
    Cardinality({r \in R : v[r] = 1 /\ g[r][1] = node})
      + Cardinality({r \in R : v[r] = -1 /\ g[r][2] = node})
      - Cardinality({r \in R : v[r] = 1 /\ g[r][2] = node})
      - Cardinality({r \in R : v[r] = -1 /\ g[r][1] = node})

\* v is the signed incidence vector of a directed path of the tree g
IsPathVector(g, R, v) ==
    LET N == 0..Cardinality(R)
        div == [node \in N |-> Divergence(g, R, v, node)]
    IN  \/ \A r \in R : v[r] = 0
        \/ /\ Cardinality({node \in N : div[node] = 1}) = 1
           /\ Cardinality({node \in N : div[node] = -1}) = 1
           /\ \A node \in N : div[node] \in {-1, 0, 1}

\* for the rows 0..k-1, for each tree, the vectors of its paths
PathVectorTable ==
    { <<k, { {VecCode(v, 0..(k - 1)) : v \in {w \in [0..(k - 1) -> Coefs] :
                                                  IsPathVector(g, 0..(k - 1), w)}} :
             g \in IncidenceTrees(0..(k - 1)) }>> : k \in 0..MaxRows }

\* the matrix with the rows 0..k-1 and the columns whose vectors are `codes` is a
\* network matrix
IsNetworkMatrix(k, codes) ==
    \E S \in (CHOOSE e \in PathVectorTable : e[1] = k)[2] : codes \subseteq S

\* the entry of the test matrix, as the string gives it
Entry(r, c) == nums[r * testCase.ncols + c]

\* the columns 0..nc-1 of the test matrix cut to the rows 0..nr-1
MatrixCodes(nr, nc) ==
    {VecCode([r \in 0..(nr - 1) |-> Entry(r, c)], 0..(nr - 1)) : c \in 0..(nc - 1)}

\* the matrix of the first k vectors of the run
PrefixIsNetwork(k) ==
    IF mode = "row" THEN IsNetworkMatrix(k, MatrixCodes(k, testCase.ncols))
    ELSE IsNetworkMatrix(testCase.nrows, MatrixCodes(testCase.nrows, k))

\* C1: the call that adds vector k returns true if and only if the matrix of
\* the vectors accepted before it together with vector k is a network matrix.
\* The vectors 0..i-1 were accepted; a rejected call is the one for vector i.
C1_VerdictIffNetwork ==
    /\ retcode = "SCIP_OKAY"
    /\ isNetwork => PrefixIsNetwork(i)
    /\ ~isNetwork => (PrefixIsNetwork(i) /\ ~PrefixIsNetwork(i + 1))

\* C1 witness: a run in which two vectors were accepted and the third rejected
C1_Witness == ~isNetwork /\ i = 2 /\ pc = "done"

\* the vector w over 0..n-1 as the arrays of its nonzero indices and values
SparseOf(w, n) ==
    LET at == NonzeroPositions(w, 0, n)
    IN  [ idx |-> [k \in 0..(Len(at) - 1) |-> at[k + 1]],
          val |-> [k \in 0..(Len(at) - 1) |-> w[at[k + 1]]],
          n |-> Len(at) ]

\* every vector over 0..n-1, each with its sparse form
VectorTable ==
    {<<n, {<<w, SparseOf(w, n)>> : w \in [0..(n - 1) -> Coefs]}>> : n \in 1..MaxRows}

VectorsOver(n) == (CHOOSE e \in VectorTable : e[1] = n)[2]

\* vector k of the run: row k over the columns, or column k over the rows
VectorOf(k) ==
    IF mode = "row" THEN [c \in 0..(testCase.ncols - 1) |-> Entry(k, c)]
    ELSE [r \in 0..(testCase.nrows - 1) |-> Entry(r, k)]

\* the number of vectors of the run, and the length of each
NumVectors == IF mode = "row" THEN testCase.nrows ELSE testCase.ncols

VectorLength == IF mode = "row" THEN testCase.ncols ELSE testCase.nrows

VectorIsEmpty(k) == \A x \in 0..(VectorLength - 1) : VectorOf(k)[x] = 0

\* the call that adds the vector w with the id k to the decomposition d
TryAddVector(d, k, w) ==
    LET s == SparseOf(w, VectorLength)
    IN  IF mode = "row" THEN SCIPnetmatdecTryAddRow(d, k, s.idx, s.val, s.n)
        ELSE SCIPnetmatdecTryAddCol(d, k, s.idx, s.val, s.n)

\* column j of the accepted matrix over all the rows: in a row run the rows
\* 0..i-1 of it, in a column run the whole column if it is one of 0..i-1
AcceptedColumn(j) ==
    [r \in 0..(testCase.nrows - 1) |->
        IF mode = "row" THEN (IF r < i THEN Entry(r, j) ELSE 0)
        ELSE (IF j < i THEN Entry(r, j) ELSE 0)]

C3_CyclesVerified ==
    /\ cycleIsCorrect
    /\ \A j \in 0..(testCase.ncols - 1) :
          \A s \in {SparseOf(AcceptedColumn(j), testCase.nrows)} :
             SCIPnetmatdecVerifyCycle(dec, j, s.idx, s.val, s.n).result

\* C3 witness: in a row run, after an accepted row, one column has entries in the
\* rows added so far and another has entries only in rows still to come
C3_Witness ==
    /\ mode = "row" /\ isNetwork /\ i >= 1 /\ i < testCase.nrows
    /\ \E j \in 0..(testCase.ncols - 1) : \E r \in 0..(i - 1) : Entry(r, j) # 0
    /\ \E j \in 0..(testCase.ncols - 1) :
          /\ \A r \in 0..(i - 1) : Entry(r, j) = 0
          /\ \E r \in i..(testCase.nrows - 1) : Entry(r, j) # 0

C7_AbsentColumnIsInvalid ==
    (mode = "row" /\ referencedAbsent) => retcode # "SCIP_OKAY"

\* C7 as the callers need it: a row addition that names a column the
\* decomposition does not hold is an ordinary call; when it is accepted the
\* column is part of the decomposition, with the row on its cycle.
C7_AbsentColumnComesInWithRow ==
    (mode = "row" /\ referencedAbsent) =>
       /\ retcode = "SCIP_OKAY"
       /\ isNetwork =>
             \A c \in 0..(testCase.ncols - 1) :
                Entry(i - 1, c) # 0 =>
                   /\ c \in dec.colids
                   /\ <<i - 1, Entry(i - 1, c)>> \in FundamentalCycle(dec, c)

\* C7 witness: the second row of a run named a column the first row did not, and
\* was accepted
C7_Witness ==
    /\ mode = "row" /\ referencedAbsent /\ isNetwork /\ i = 2
    /\ \E c \in 0..(testCase.ncols - 1) : Entry(0, c) = 0 /\ Entry(1, c) # 0

\* C8: a vector without nonzeros is accepted, and the verdict of every call
\* after it is the verdict the call gets without it.
C8_EmptyVectorAccepted ==
    (pc = "loop" /\ VectorIsEmpty(i)) =>
       \A e \in {TryAddVector(dec, i, VectorOf(i))} :
          /\ e.retcode = "SCIP_OKAY"
          /\ e.success
          /\ \A k \in (i + 1)..(NumVectors - 1) :
                \A w \in [0..(VectorLength - 1) -> Coefs] :
                   TryAddVector(e.dec, k, w).success = TryAddVector(dec, k, w).success

\* C8 witness: a vector with nonzeros, then an empty vector, then a third vector
\* were all added
C8_Witness ==
    /\ isNetwork /\ i = 3
    /\ ~VectorIsEmpty(0) /\ VectorIsEmpty(1) /\ ~VectorIsEmpty(2)

\* ------------------------------------------------------------------------
\* The components of the continuous columns, by their definition
\* ------------------------------------------------------------------------

IsContinuous(c) == matrix.vartype[c] = "SCIP_VARTYPE_CONTINUOUS"

MatrixCols == 0..(matrix.ncols - 1)

MatrixRows == 0..(matrix.nrows - 1)

\* the matrix has a nonzero in row r of column c
HasNonzero(r, c) == \E k \in DOMAIN matrix.colidx[c] : matrix.colidx[c][k] = r

\* the continuous columns a chain of rows and continuous columns links to the
\* columns S
RECURSIVE LinkedColumns(_)
LinkedColumns(S) ==
    LET more == S \cup {c \in MatrixCols :
                           /\ IsContinuous(c)
                           /\ \E r \in MatrixRows, c2 \in S :
                                 HasNonzero(r, c) /\ HasNonzero(r, c2)}
    IN  IF more = S THEN S ELSE LinkedColumns(more)

\* C9: once the columns are labelled, every continuous column has a component
\* index in 0..ncomponents-1 and every index is used, every other column has
\* -1, and two continuous columns have the same index if and only if a chain of
\* rows and continuous columns links them.
C9_ColumnsPartitioned ==
    ccpc \in {"rows", "done"} =>
       /\ \A c \in MatrixCols :
             IF IsContinuous(c)
             THEN comp.colcomponent[c] \in 0..(comp.ncomponents - 1)
             ELSE comp.colcomponent[c] = -1
       /\ \A k \in 0..(comp.ncomponents - 1) :
             \E c \in MatrixCols : IsContinuous(c) /\ comp.colcomponent[c] = k
       /\ \A c1, c2 \in MatrixCols :
             (IsContinuous(c1) /\ IsContinuous(c2)) =>
                ((comp.colcomponent[c1] = comp.colcomponent[c2])
                    <=> (c2 \in LinkedColumns({c1})))

\* C9 witness: two continuous columns that only an integer column lies between
\* got different components
C9_Witness ==
    /\ ccpc = "done" /\ matrix.ncols = 3 /\ matrix.nrows = 2
    /\ IsContinuous(0) /\ ~IsContinuous(1) /\ IsContinuous(2)
    /\ HasNonzero(0, 0) /\ HasNonzero(0, 1) /\ HasNonzero(1, 1) /\ HasNonzero(1, 2)
    /\ comp.colcomponent[0] # comp.colcomponent[2]
    /\ comp.ncomponents = 2

\* C10: once the rows are labelled, a row has -1 if and only if it has no
\* nonzero in a continuous column, and otherwise it has the component of every
\* continuous column it has a nonzero in.
C10_RowsFollowColumns ==
    ccpc = "done" =>
       \A r \in MatrixRows :
          /\ (comp.rowcomponent[r] = -1)
                <=> ~(\E c \in MatrixCols : IsContinuous(c) /\ HasNonzero(r, c))
          /\ \A c \in MatrixCols :
                (IsContinuous(c) /\ HasNonzero(r, c)) =>
                   comp.rowcomponent[r] = comp.colcomponent[c]

\* C10 witness: one row has nonzeros in two continuous columns, the other only
\* in an integer column
C10_Witness ==
    /\ ccpc = "done" /\ matrix.ncols = 3 /\ matrix.nrows = 2
    /\ IsContinuous(0) /\ IsContinuous(1) /\ ~IsContinuous(2)
    /\ HasNonzero(0, 0) /\ HasNonzero(0, 1) /\ ~HasNonzero(1, 0) /\ ~HasNonzero(1, 1)
    /\ HasNonzero(1, 2)
    /\ comp.rowcomponent[0] = 0 /\ comp.rowcomponent[1] = -1

\* ------------------------------------------------------------------------
\* The presolver: what the claims speak of, read off the matrix, the labels
\* of the components and the calls
\* ------------------------------------------------------------------------

\* the coefficient of row r in column c
Coefficient(r, c) ==
    LET at == {k \in DOMAIN matrix.rowidx[r] : matrix.rowidx[r][k] = c}
    IN  IF at = {} THEN 0 ELSE matrix.rowval[r][CHOOSE k \in at : TRUE]

\* the rows and the columns that carry the label of component k
RowsOfComponent(k) == {r \in MatrixRows : comp.rowcomponent[r] = k}

ColsOfComponent(k) == {c \in MatrixCols : comp.colcomponent[c] = k}

\* the calls made for component k, on the decomposition `on`
CallsFor(k, on) == {n \in 1..Len(calls) : calls[n].component = k /\ calls[n].dec = on}

\* one of these calls was not accepted
RejectedBy(k, on) == \E n \in CallsFor(k, on) : ~calls[n].success

\* component k is through: the loop of findImpliedIntegers is past it
ComponentThrough(k) == ccpc = "done" /\ k < comp.ncomponents /\ k < fiComponent

\* the coefficients of row r on the columns that are not continuous are integers
IntegerOffContinuous(r) ==
    \A c \in MatrixCols :
        matrix.vartype[c] # "SCIP_VARTYPE_CONTINUOUS" => Coefficient(r, c) % One = 0

\* both sides of row r are finite integers
FiniteIntegerSides(r) ==
    /\ matrix.lhs[r] > 0 - SCIPinfinity /\ matrix.lhs[r] < SCIPinfinity
    /\ matrix.rhs[r] > 0 - SCIPinfinity /\ matrix.rhs[r] < SCIPinfinity
    /\ matrix.lhs[r] % One = 0 /\ matrix.rhs[r] % One = 0

\* each side of row r is an integer or infinite
IntegerOrInfiniteSides(r) ==
    /\ matrix.lhs[r] <= 0 - SCIPinfinity \/ matrix.lhs[r] % One = 0
    /\ matrix.rhs[r] >= SCIPinfinity \/ matrix.rhs[r] % One = 0

\* every row of component k passes the whole filter: integers off the continuous
\* columns, 1 or -1 on them, sides that are integers or infinite, nothing above 1e7
PassesFilter(k) ==
    \A r \in RowsOfComponent(k) :
        /\ IntegerOffContinuous(r)
        /\ IntegerOrInfiniteSides(r)
        /\ \A c \in MatrixCols :
              /\ Coefficient(r, c) <= LargeEntry /\ Coefficient(r, c) >= 0 - LargeEntry
              /\ (matrix.vartype[c] = "SCIP_VARTYPE_CONTINUOUS" /\ Coefficient(r, c) # 0)
                    => Coefficient(r, c) \in {One, 0 - One}

\* C11 as stated: a component is streamed into the engine only if every one of
\* its rows has integer coefficients on its non-continuous columns and finite
\* integer left- and right-hand sides.
C11_StreamedOnlyWithFiniteIntegerSides ==
    \A n \in 1..Len(calls) :
        \A r \in RowsOfComponent(calls[n].component) :
            IntegerOffContinuous(r) /\ FiniteIntegerSides(r)

\* C11 (amended): a component is streamed into the engine only if every one of
\* its rows has integer coefficients on its non-continuous columns and sides
\* that are each an integer or infinite; a component with a row that fails this
\* is passed over without any engine call.
C11_StreamedOnlyWithIntegerOrInfiniteSides ==
    /\ \A n \in 1..Len(calls) :
          \A r \in RowsOfComponent(calls[n].component) :
              IntegerOffContinuous(r) /\ IntegerOrInfiniteSides(r)
    /\ ccpc = "done" =>
          \A k \in 0..(comp.ncomponents - 1) :
              (\E r \in RowsOfComponent(k) :
                   ~(IntegerOffContinuous(r) /\ IntegerOrInfiniteSides(r)))
                 => CallsFor(k, "dec") \cup CallsFor(k, "transdec") = {}

\* C11 witness: the run is over; a component with a row whose left-hand side is
\* infinite was streamed into dec and transdec.
C11_Witness ==
    /\ fipc = "returned" /\ ccpc = "done"
    /\ \E k \in 0..(comp.ncomponents - 1) :
          /\ CallsFor(k, "dec") # {} /\ CallsFor(k, "transdec") # {}
          /\ \E r \in RowsOfComponent(k) : matrix.lhs[r] <= 0 - SCIPinfinity

\* C12: for every component that passes the filter, dec is fed the rows of the
\* component with SCIPnetmatdecTryAddRow if and only if nrows * columnrowratio <
\* ncols, and its columns with SCIPnetmatdecTryAddCol otherwise; up to the first
\* call that is not accepted, all of them are fed.
C12_RowWiseIffRatioBelow ==
    ccpc = "done" =>
       \A k \in 0..(comp.ncomponents - 1) :
          LET byRows == Cardinality(RowsOfComponent(k)) * presoldata.columnrowratio
                           < Double(Cardinality(ColsOfComponent(k)))
              fed == {calls[n].id : n \in CallsFor(k, "dec")}
          IN  /\ \A n \in CallsFor(k, "dec") :
                    calls[n].op = IF byRows THEN "SCIPnetmatdecTryAddRow"
                                  ELSE "SCIPnetmatdecTryAddCol"
              /\ (PassesFilter(k) /\ ~RejectedBy(k, "dec")
                    /\ (k < fiComponent \/ (k = fiComponent /\ fipc = "transposed")))
                   => fed = IF byRows THEN RowsOfComponent(k) ELSE ColsOfComponent(k)

\* C12 witness: with the ratio 1, a component of one row and two columns was fed
\* by rows and a component of one row and one column by columns.
C12_Witness ==
    /\ fipc = "returned" /\ ccpc = "done"
    /\ presoldata.columnrowratio = One
    /\ \E n \in 1..Len(calls) :
          /\ calls[n].dec = "dec" /\ calls[n].op = "SCIPnetmatdecTryAddRow"
          /\ Cardinality(ColsOfComponent(calls[n].component)) = 2
    /\ \E n \in 1..Len(calls) :
          /\ calls[n].dec = "dec" /\ calls[n].op = "SCIPnetmatdecTryAddCol"
          /\ Cardinality(RowsOfComponent(calls[n].component)) = 1

\* the columns of component k have been made implied integer
Marked(k) == \A c \in ColsOfComponent(k) : vartype[c] = "SCIP_VARTYPE_IMPLINT"

\* no column of component k has been made implied integer
Unmarked(k) == \A c \in ColsOfComponent(k) : vartype[c] = matrix.vartype[c]

\* C13 as stated: as soon as one call made for a component is not accepted, the
\* component is discarded: none of its continuous variables is made implied
\* integer.
C13_DiscardedOnFirstRejection ==
    ccpc = "done" =>
       \A k \in 0..(comp.ncomponents - 1) :
          (RejectedBy(k, "dec") \/ RejectedBy(k, "transdec")) => Unmarked(k)

\* C13 (amended): a component is discarded, none of its variables made implied
\* integer, exactly when a call on dec and a call on transdec were both not
\* accepted (or the filter passed it over); a component that only one of the
\* two decompositions did not accept has its variables made implied integer.
C13_DiscardedWhenBothReject ==
    ccpc = "done" =>
       \A k \in 0..(comp.ncomponents - 1) :
          /\ (RejectedBy(k, "dec") /\ RejectedBy(k, "transdec")) => Unmarked(k)
          /\ ~PassesFilter(k) => Unmarked(k)
          /\ (ComponentThrough(k) /\ PassesFilter(k)
                /\ ~(RejectedBy(k, "dec") /\ RejectedBy(k, "transdec"))) => Marked(k)
          /\ ~ComponentThrough(k) => Unmarked(k)

\* C13 witness: dec did not accept a column of the component, transdec accepted
\* every row, and the columns of the component were made implied integer.
C13_Witness ==
    /\ fipc = "returned" /\ ccpc = "done"
    /\ \E k \in 0..(comp.ncomponents - 1) :
          /\ RejectedBy(k, "dec")
          /\ ~RejectedBy(k, "transdec")
          /\ CallsFor(k, "transdec") # {}
          /\ Marked(k)

\* component k was accepted: it passed the filter and dec or transdec accepted
\* all that was added for it
Accepted(k) ==
    /\ ComponentThrough(k)
    /\ PassesFilter(k)
    /\ ~RejectedBy(k, "dec") \/ ~RejectedBy(k, "transdec")

\* C14: when a component is accepted, every continuous column of it is made
\* implied integer and nchgvartypes goes up by one for each such column; every
\* other column keeps its type.
C14_AcceptedColumnsMarkedOnce ==
    ccpc = "done" =>
       /\ \A c \in MatrixCols :
             IF comp.colcomponent[c] >= 0 /\ Accepted(comp.colcomponent[c])
             THEN matrix.vartype[c] = "SCIP_VARTYPE_CONTINUOUS"
                    /\ vartype[c] = "SCIP_VARTYPE_IMPLINT"
             ELSE vartype[c] = matrix.vartype[c]
       /\ nchgvartypes =
             Cardinality({c \in MatrixCols :
                 comp.colcomponent[c] >= 0 /\ Accepted(comp.colcomponent[c])})

\* C14 witness: the run is over, one component was accepted and its two columns
\* were made implied integer, and there are a column that is not continuous and
\* a component that was not accepted.
C14_Witness ==
    /\ fipc = "returned" /\ ccpc = "done"
    /\ nchgvartypes = 2
    /\ \E k \in 0..(comp.ncomponents - 1) :
          Accepted(k) /\ Cardinality(ColsOfComponent(k)) = 2
    /\ \E c \in MatrixCols : matrix.vartype[c] = "SCIP_VARTYPE_INTEGER"

\* C15 as stated: with convertintegers set, the integer columns too are grouped
\* into components and streamed into the engine.
C15_IntegerColumnsGroupedAndStreamed ==
    (fipc = "returned" /\ presoldata.convertintegers) =>
       \A c \in MatrixCols :
          matrix.vartype[c] = "SCIP_VARTYPE_INTEGER" =>
             /\ ccpc = "done"
             /\ comp.colcomponent[c] >= 0
             /\ PassesFilter(comp.colcomponent[c]) =>
                   \E n \in 1..Len(calls) :
                      \/ calls[n].id = c /\ calls[n].nnonzs >= 0
                            /\ calls[n].op = (IF calls[n].dec = "dec"
                                              THEN "SCIPnetmatdecTryAddCol"
                                              ELSE "SCIPnetmatdecTryAddRow")
                      \/ \E j \in 0..(calls[n].nnonzs - 1) :
                            /\ calls[n].nonzidx[j] = c
                            /\ calls[n].op = (IF calls[n].dec = "dec"
                                              THEN "SCIPnetmatdecTryAddRow"
                                              ELSE "SCIPnetmatdecTryAddCol")

\* C19: every coefficient handed to SCIPnetmatdecTryAddRow or
\* SCIPnetmatdecTryAddCol, on dec and on transdec, from rows and from columns, is
\* 1 or -1; no assert(ABS(rowvals[j]) == 1.0) fails and no call is turned down
\* as invalid.
C19_CoefficientsPlusMinusOne ==
    /\ \A n \in 1..Len(calls) :
          /\ \A j \in 0..(calls[n].nnonzs - 1) : calls[n].nonzvals[j] \in {One, 0 - One}
          /\ calls[n].asserted
          /\ calls[n].retcode = "SCIP_OKAY"
    /\ fipc # "failed"

\* C19 witness: in one run dec and transdec were both fed rows and columns, with
\* coefficients of both signs.
C19_Witness ==
    /\ fipc = "returned"
    /\ \A on \in {"dec", "transdec"} :
       \A op \in {"SCIPnetmatdecTryAddRow", "SCIPnetmatdecTryAddCol"} :
          \E n \in 1..Len(calls) :
             calls[n].dec = on /\ calls[n].op = op /\ calls[n].nnonzs > 0
    /\ \E n \in 1..Len(calls) : \E j \in 0..(calls[n].nnonzs - 1) :
          calls[n].nonzvals[j] = 0 - One

\* the rows of the matrix a call names: its subject, or its indices
RowIdsOfCall(call) ==
    IF (call.dec = "dec") = (call.op = "SCIPnetmatdecTryAddRow")
    THEN {call.id}
    ELSE {call.nonzidx[j] : j \in 0..(call.nnonzs - 1)}

\* the columns of the matrix a call names: its subject, or its indices
ColIdsOfCall(call) ==
    IF (call.dec = "dec") = (call.op = "SCIPnetmatdecTryAddRow")
    THEN {call.nonzidx[j] : j \in 0..(call.nnonzs - 1)}
    ELSE {call.id}

\* C20: on either decomposition no row and no column is the subject of two
\* calls, the rows and columns the calls of different components name are
\* disjoint, and every subject lies within the sizes the decomposition was
\* created with.
C20_IdsOnceDisjointAndInRange ==
    \A n \in 1..Len(calls) :
       /\ \A m \in 1..Len(calls) :
             /\ (m # n /\ calls[m].dec = calls[n].dec /\ calls[m].op = calls[n].op)
                   => calls[m].id # calls[n].id
             /\ (calls[m].dec = calls[n].dec /\ calls[m].component # calls[n].component)
                   => /\ RowIdsOfCall(calls[m]) \cap RowIdsOfCall(calls[n]) = {}
                      /\ ColIdsOfCall(calls[m]) \cap ColIdsOfCall(calls[n]) = {}
       /\ calls[n].id >= 0
       /\ calls[n].id <
             (IF (calls[n].dec = "dec") = (calls[n].op = "SCIPnetmatdecTryAddRow")
              THEN matrix.nrows ELSE matrix.ncols)

\* C20 witness: the run is over and calls were made for two components on dec
\* and on transdec.
C20_Witness ==
    /\ fipc = "returned"
    /\ \A on \in {"dec", "transdec"} :
          \E n, m \in 1..Len(calls) :
             /\ calls[n].dec = on /\ calls[m].dec = on
             /\ calls[n].component # calls[m].component

\* ------------------------------------------------------------------------
\* The tests on literal matrices
\* ------------------------------------------------------------------------

\* the string of the test coladd_3by3_1
ThreeByThreeRows == <<0, 1, 1,  1, -1, -1,  -1, 1, -1>>

\* runRowTestCase runs on the matrix of coladd_3by3_1
OnThreeByThree ==
    /\ mode = "row"
    /\ testCase.nrows = 3 /\ testCase.ncols = 3
    /\ nums = [k \in 0..(Len(ThreeByThreeRows) - 1) |-> ThreeByThreeRows[k + 1]]

\* C16 as stated: of the rows [0 1 1], [1 -1 -1], [-1 1 -1], added in this order
\* to an empty decomposition, the first is accepted and the second is rejected.
C16_SecondRowRejected ==
    OnThreeByThree =>
       /\ i <= 1
       /\ pc = "done" => (i = 1 /\ ~isNetwork)

\* C16 (amended): of the rows [0 1 1], [1 -1 -1], [-1 1 -1], added in this order
\* to an empty decomposition, the first and the second are accepted and the
\* third is rejected.
C16_ThirdRowRejected ==
    OnThreeByThree =>
       /\ i <= 2
       /\ i < 2 => isNetwork
       /\ pc = "done" => (i = 2 /\ ~isNetwork /\ dec.rowids = {0, 1})

\* C16 witness: the run on the three rows is over, with two rows in the
\* decomposition and the third turned down.
C16_Witness ==
    /\ OnThreeByThree
    /\ pc = "done" /\ i = 2 /\ ~isNetwork /\ retcode = "SCIP_OKAY"
    /\ dec.rowids = {0, 1}

\* runRowTestCase runs on the matrix of rowadd_singlerigid_3
OnSingleRigid3 ==
    /\ mode = "row"
    /\ testCase.nrows = SingleRigidNRows /\ testCase.ncols = SingleRigidNCols
    /\ nums \in SingleRigidStrings
    /\ Entry(3, 0) = -1 /\ Entry(3, 1) = 1 /\ Entry(3, 2) = 0

\* C17: the rows [+1 0 +1], [+1 +1 0], [0 -1 +1], added row-wise to an empty
\* decomposition, are all three accepted, and the fourth row [-1 +1 0] is then
\* rejected.
C17_FourthRowRejected ==
    OnSingleRigid3 =>
       /\ i <= 3
       /\ i < 3 => isNetwork
       /\ pc = "done" => (i = 3 /\ ~isNetwork /\ dec.rowids = {0, 1, 2})

\* C17 witness: the run of rowadd_singlerigid_3 is over, with three rows in the
\* decomposition and the fourth turned down.
C17_Witness ==
    /\ OnSingleRigid3
    /\ pc = "done" /\ i = 3 /\ ~isNetwork /\ retcode = "SCIP_OKAY"
    /\ dec.rowids = {0, 1, 2}

\* the nodes that the arcs T join to the nodes `seen`
RECURSIVE JoinedBy(_, _)
JoinedBy(T, seen) ==
    LET more == seen \cup {a.head : a \in {b \in T : b.tail \in seen}}
                     \cup {a.tail : a \in {b \in T : b.head \in seen}}
    IN  IF more = seen THEN seen ELSE JoinedBy(T, more)

\* the spanning trees of the graph g, directions left aside
SpanningTrees(g) ==
    {T \in SUBSET g.arcs :
        /\ Cardinality(T) = Cardinality(g.nodes) - 1
        /\ JoinedBy(T, {0}) = g.nodes}

\* the arcs of the tree T on the way between the ends of the arc a
TreePath(T, a) == {b \in T : a.head \notin JoinedBy(T \ {b}, {a.tail})}

\* the rows in which column c of the test matrix has an entry
SupportOf(c) == {r \in 0..(testCase.nrows - 1) : Entry(r, c) # 0}

\* the graph has one arc for every row and one for every column of the
\* decomposition
OneArcEach(g) ==
    /\ \A r \in dec.rowids : Cardinality({a \in g.arcs : a.kind = "row" /\ a.id = r}) = 1
    /\ \A c \in dec.colids : Cardinality({a \in g.arcs : a.kind = "column" /\ a.id = c}) = 1
    /\ Cardinality(g.arcs) = Cardinality(dec.rowids) + Cardinality(dec.colids)

\* with respect to the tree T, the arcs outside T are the arcs of the columns,
\* and the fundamental cycle of each runs through the rows of its column
CyclesAreSupports(g, T) ==
    \A a \in g.arcs \ T :
        /\ a.kind = "column"
        /\ {<<b.kind, b.id>> : b \in TreePath(T, a)} = {<<"row", r>> : r \in SupportOf(a.id)}

\* the arcs of the rows
RowArcs(g) == {a \in g.arcs : a.kind = "row"}

\* C18 as stated: the graph SCIPnetmatdecCreateDiGraph returns has one arc for
\* every row and every column, and with respect to any spanning tree of it the
\* fundamental cycles are the supports of the accepted columns.
C18_CyclesForAnySpanningTree ==
    (mode = "graph" /\ pc = "done") =>
       /\ OneArcEach(graph)
       /\ \A T \in SpanningTrees(graph) : CyclesAreSupports(graph, T)

\* C18 (amended): the graph SCIPnetmatdecCreateDiGraph returns has one arc for
\* every row and every column; the arcs of the rows form a spanning tree of it,
\* and with respect to this tree the fundamental cycles are the supports of
\* the accepted columns.
C18_CyclesForTreeOfRows ==
    (mode = "graph" /\ pc = "done") =>
       /\ OneArcEach(graph)
       /\ RowArcs(graph) \in SpanningTrees(graph)
       /\ CyclesAreSupports(graph, RowArcs(graph))

\* C18 witness: the graph of rowadd_singlerigid_graph was made: four arcs of
\* rows, three arcs of columns, each column with two or three rows.
C18_Witness ==
    /\ mode = "graph" /\ pc = "done"
    /\ testCase.nrows = SingleRigidNRows /\ nums \in SingleRigidStrings
    /\ Entry(3, 0) = 1 /\ Entry(3, 1) = 1 /\ Entry(3, 2) = 0
    /\ Cardinality(RowArcs(graph)) = 4
    /\ Cardinality(graph.arcs \ RowArcs(graph)) = 3

\* ------------------------------------------------------------------------
\* The presolver: the transposed decomposition, the counters, the result
\* ------------------------------------------------------------------------

\* C21 as stated: transdec is fed with SCIPnetmatdecTryAddRow, one call for
\* each column of the component, if and only if ncols * columnrowratio < nrows,
\* and with SCIPnetmatdecTryAddCol otherwise.
C21_TransposedRowWiseIffRatioBelow ==
    ccpc = "done" =>
       \A k \in 0..(comp.ncomponents - 1) :
          LET rowAddition == Cardinality(ColsOfComponent(k)) * presoldata.columnrowratio
                                < Double(Cardinality(RowsOfComponent(k)))
          IN  \A n \in CallsFor(k, "transdec") :
                 calls[n].op = IF rowAddition THEN "SCIPnetmatdecTryAddRow"
                               ELSE "SCIPnetmatdecTryAddCol"

\* the columns findImpliedIntegers has changed to implied integer
ChangedColumns ==
    {c \in MatrixCols : vartype[c] = "SCIP_VARTYPE_IMPLINT" /\ matrix.vartype[c] # vartype[c]}

\* column c is named by a call that was accepted, as the subject or as an index
InAcceptedCall(c) ==
    \E n \in 1..Len(calls) : calls[n].success /\ c \in ColIdsOfCall(calls[n])

\* C22 as stated: every column that findImpliedIntegers changed to implied
\* integer was named, before that, by an accepted call on dec or on transdec.
C22_ChangedColumnsWereStreamed ==
    \A c \in ChangedColumns : InAcceptedCall(c)

\* C22 (amended): every column with an entry that findImpliedIntegers changed
\* to implied integer was named, before that, by an accepted call on dec or on
\* transdec; a changed column that no call named has no entry, and
\* columnrowratio is above 0.
C22_ChangedColumnsWithEntriesWereStreamed ==
    \A c \in ChangedColumns :
        \/ InAcceptedCall(c)
        \/ /\ \A r \in MatrixRows : Coefficient(r, c) = 0
           /\ presoldata.columnrowratio > 0

\* C22 witness: the run is over; one column changed to implied integer has
\* entries and was named by accepted calls on dec and on transdec, another has
\* no entry and was changed without any call.
C22_Witness ==
    /\ fipc = "returned"
    /\ \E c \in ChangedColumns :
          /\ \E r \in MatrixRows : Coefficient(r, c) # 0
          /\ \E n, m \in 1..Len(calls) :
                /\ calls[n].success /\ c \in ColIdsOfCall(calls[n]) /\ calls[n].dec = "dec"
                /\ calls[m].success /\ c \in ColIdsOfCall(calls[m]) /\ calls[m].dec = "transdec"
    /\ \E c \in ChangedColumns : ~InAcceptedCall(c)

\* the components the loop of findImpliedIntegers is through with
ComponentsThrough == {k \in 0..(comp.ncomponents - 1) : k < fiComponent}

\* C23: every component findImpliedIntegers is through with is counted in
\* exactly one of goodcomponents, nbadintegrality, nbadnumerics and nnonnetwork:
\* their sum is the number of these components, at the end ncomponents;
\* planarcomponents <= goodcomponents; nnonnetwork counts the components that
\* passed the filter and that dec and transdec both did not accept,
\* goodcomponents the other components that passed the filter.
C23_ComponentsCountedOnce ==
    (ccpc = "done" /\ fipc \in {"filter", "primary", "transposed", "returned"}) =>
       /\ tally.goodcomponents + tally.nbadintegrality + tally.nbadnumerics
             + tally.nnonnetwork = Cardinality(ComponentsThrough)
       /\ fipc = "returned" => ComponentsThrough = 0..(comp.ncomponents - 1)
       /\ tally.planarcomponents <= tally.goodcomponents
       /\ tally.nnonnetwork =
             Cardinality({k \in ComponentsThrough :
                 PassesFilter(k) /\ RejectedBy(k, "dec") /\ RejectedBy(k, "transdec")})
       /\ tally.goodcomponents =
             Cardinality({k \in ComponentsThrough :
                 PassesFilter(k) /\ ~(RejectedBy(k, "dec") /\ RejectedBy(k, "transdec"))})
       /\ tally.planarcomponents =
             Cardinality({k \in ComponentsThrough :
                 PassesFilter(k) /\ ~RejectedBy(k, "dec") /\ ~RejectedBy(k, "transdec")})
       /\ tally.nbadintegrality + tally.nbadnumerics =
             Cardinality({k \in ComponentsThrough : ~PassesFilter(k)})

\* C23 witness: findImpliedIntegers is over with two components, one that dec
\* and transdec both did not accept, counted in nnonnetwork, and one counted in
\* goodcomponents and planarcomponents.
C23_Witness ==
    /\ fipc = "returned" /\ ccpc = "done"
    /\ comp.ncomponents = 2
    /\ tally.nnonnetwork = 1
    /\ tally.goodcomponents = 1 /\ tally.planarcomponents = 1
    /\ \E k \in 0..1 : RejectedBy(k, "dec") /\ RejectedBy(k, "transdec")

\* the SCIPnetmatdecRemoveComponent calls made for component k on `on`
RemovalsFor(k, on) ==
    {m \in 1..Len(removals) : removals[m].component = k /\ removals[m].dec = on}

\* findImpliedIntegers is through with component k on the decomposition `on`
PastDecomposition(k, on) ==
    \/ k < fiComponent
    \/ k = fiComponent /\ on = "dec" /\ fipc = "transposed"

\* the rows and the columns of component k as the decomposition `on` knows
\* them: the columns of the matrix are the rows of transdec
RowsOn(k, on) == IF on = "dec" THEN RowsOfComponent(k) ELSE ColsOfComponent(k)

ColsOn(k, on) == IF on = "dec" THEN ColsOfComponent(k) ELSE RowsOfComponent(k)

\* the rows and columns of `on` that the calls for component k named
NamedRowsOn(k, on) ==
    UNION {IF on = "dec" THEN RowIdsOfCall(calls[n]) ELSE ColIdsOfCall(calls[n]) :
             n \in CallsFor(k, on)}

NamedColsOn(k, on) ==
    UNION {IF on = "dec" THEN ColIdsOfCall(calls[n]) ELSE RowIdsOfCall(calls[n]) :
             n \in CallsFor(k, on)}

\* the components before k that `on` accepted in full
AcceptedBefore(k, on) ==
    {j \in 0..(comp.ncomponents - 1) : j < k /\ PassesFilter(j) /\ ~RejectedBy(j, on)}

\* the streaming of a component into `on` is about to start
AtStartOf(on) ==
    /\ fipc = (IF on = "dec" THEN "primary" ELSE "transposed")
    /\ CallsFor(fiComponent, on) = {}

\* the value of the variable that holds the decomposition `on`
DecompositionOf(on) == IF on = "dec" THEN decPrimary ELSE transdec

\* C24: when a component is not accepted by a decomposition,
\* SCIPnetmatdecRemoveComponent is called on that decomposition, once, with
\* exactly the rows and columns of the component, after the calls made for the
\* component and before any call for a later component; and at the start of
\* the streaming of each component the decomposition holds only rows and
\* columns of earlier components that it accepted in full (all those that
\* their calls named).
C24_RejectedComponentRemoved ==
    ccpc = "done" =>
       \A on \in {"dec", "transdec"} :
          /\ \A k \in 0..(comp.ncomponents - 1) :
                /\ \A m \in RemovalsFor(k, on) :
                      /\ RejectedBy(k, on)
                      /\ {removals[m].componentrows[j] : j \in 0..(removals[m].nrows - 1)}
                            = RowsOn(k, on)
                      /\ {removals[m].componentcols[j] : j \in 0..(removals[m].ncols - 1)}
                            = ColsOn(k, on)
                      /\ \A n \in CallsFor(k, on) : n <= removals[m].ncalls
                      /\ \A n \in 1..Len(calls) :
                            (calls[n].dec = on /\ calls[n].component > k)
                               => n > removals[m].ncalls
                /\ Cardinality(RemovalsFor(k, on)) =
                      IF RejectedBy(k, on) /\ PastDecomposition(k, on) THEN 1 ELSE 0
          /\ AtStartOf(on) =>
                \A d \in {DecompositionOf(on)} :
                   /\ d.rowids \subseteq UNION {RowsOn(j, on) : j \in AcceptedBefore(fiComponent, on)}
                   /\ d.colids \subseteq UNION {ColsOn(j, on) : j \in AcceptedBefore(fiComponent, on)}
                   /\ d.rowids = UNION {NamedRowsOn(j, on) : j \in AcceptedBefore(fiComponent, on)}
                   /\ d.colids = UNION {NamedColsOn(j, on) : j \in AcceptedBefore(fiComponent, on)}

\* C24 witness: the second component is about to be streamed into transdec;
\* the first was not accepted by dec nor by transdec and was removed from both,
\* and transdec holds nothing.
C24_Witness ==
    /\ ccpc = "done" /\ fiComponent = 1 /\ AtStartOf("transdec")
    /\ RemovalsFor(0, "dec") # {} /\ RemovalsFor(0, "transdec") # {}
    /\ Cardinality(RowsOfComponent(0)) = 2
    /\ transdec.rowids = {} /\ transdec.colids = {}
\* ------------------------------------------------------------------------
\* The disjoint set of computeContinuousComponents and the flat layout

\* the nodes reached from the nodes of S by following the entries that are not
\* negative
RECURSIVE AncestorsOf(_, _)
AncestorsOf(ds, S) ==
    LET more == S \cup {ds[n] : n \in {x \in S : ds[x] >= 0}}
    IN  IF more = S THEN S ELSE AncestorsOf(ds, more)

\* the ancestors of n with a negative entry
RootsOf(ds, n) == {a \in AncestorsOf(ds, {n}) : ds[a] < 0}

\* the nodes a find of n walks over before it reaches the root
PathOf(ds, n) == {a \in AncestorsOf(ds, {n}) : ds[a] >= 0}

\* the calls of disjointSetFind of the last step
FindCalls == {n \in 1..Len(dscalls) : dscalls[n].op = "disjointSetFind"}

\* the calls of disjointSetMerge of the last step
MergeCalls == {n \in 1..Len(dscalls) : dscalls[n].op = "disjointSetMerge"}

\* C25: every call of disjointSetFind returns the one ancestor of its argument
\* that has a negative entry; after the call every node of the path walked
\* points to that root; every node has the root it had before; the same call
\* made again returns the same root and changes no entry.
C25_FindReturnsRootAndCompresses ==
    \A n \in FindCalls :
       LET call == dscalls[n]
       IN  /\ RootsOf(call.before, call.index) = {call.root}
           /\ DOMAIN call.after = DOMAIN call.before
           /\ \A p \in PathOf(call.before, call.index) : call.after[p] = call.root
           /\ \A x \in DOMAIN call.before :
                 RootsOf(call.after, x) = RootsOf(call.before, x)
           /\ disjointSetFind(call.after, call.index)
                 = [root |-> call.root, disjointset |-> call.after]

\* C25 witness: a find whose argument was two steps away from the root, and
\* points to the root after the call
C25_Witness ==
    \E n \in FindCalls :
       LET call == dscalls[n]
           parent == call.before[call.index]
       IN  /\ parent >= 0
           /\ call.before[parent] = call.root
           /\ parent # call.root
           /\ call.after[call.index] = call.root
           /\ call.after # call.before

\* the array is a forest: every entry is negative or a node, and from every
\* node exactly one node with a negative entry is reached
IsForest(ds) ==
    \A x \in DOMAIN ds :
       /\ ds[x] < 0 \/ ds[x] \in DOMAIN ds
       /\ Cardinality(RootsOf(ds, x)) = 1

\* C26: every call of disjointSetMerge made by computeContinuousComponents has
\* two different roots as arguments, so its three assertions hold; the node
\* returned is afterwards the root of every node of the two sets, and no other
\* node changes its root; the argument of larger rank stays root, with its rank
\* unchanged; on equal ranks the first argument stays root and its rank grows
\* by one; the array is a forest in every state.
C26_MergeOfDistinctRootsKeepsForest ==
    /\ IsForest(disjointset)
    /\ \A n \in MergeCalls :
          LET call == dscalls[n]
              firstRank == 0 - call.before[call.first]
              secondRank == 0 - call.before[call.second]
              rootRank == 0 - call.after[call.root]
          IN  /\ call.asserted
              /\ call.before[call.first] < 0 /\ call.before[call.second] < 0
              /\ call.first # call.second
              /\ IsForest(call.before) /\ IsForest(call.after)
              /\ \A x \in DOMAIN call.before :
                    RootsOf(call.after, x) =
                       IF RootsOf(call.before, x) \subseteq {call.first, call.second}
                       THEN {call.root} ELSE RootsOf(call.before, x)
              /\ firstRank > secondRank => call.root = call.first /\ rootRank = firstRank
              /\ firstRank < secondRank => call.root = call.second /\ rootRank = secondRank
              /\ firstRank = secondRank => call.root = call.first /\ rootRank = firstRank + 1

\* C26 witness: a merge of a column of rank 1 with the root of a row of rank 2:
\* the second argument is returned and the first points to it
C26_Witness ==
    \E n \in MergeCalls :
       LET call == dscalls[n]
       IN  /\ call.before[call.first] = -1 /\ call.before[call.second] = -2
           /\ call.root = call.second
           /\ call.after[call.first] = call.second
           /\ call.after[call.second] = -2
           /\ disjointset = call.after

\* the positions of the flat array that component k has, and what stands there
SlicePositions(start, count, k) == {start[k] + j : j \in 0..(count[k] - 1)}

\* the slice of component k holds exactly the indices of `members`, each once,
\* in ascending order
SliceHolds(array, start, count, k, members) ==
    /\ count[k] = Cardinality(members)
    /\ {array[p] : p \in SlicePositions(start, count, k)} = members
    /\ \A p, q \in SlicePositions(start, count, k) : p < q => array[p] < array[q]

\* the starts are the prefix sums of the counts
StartsArePrefixSums(start, count, n) ==
    /\ start[0] = 0
    /\ \A k \in 1..(n - 1) : start[k] = start[k - 1] + count[k - 1]

\* C27: when computeContinuousComponents is through, componentcolstart and
\* componentrowstart are the prefix sums of ncomponentcols and ncomponentrows;
\* the slice of every component holds exactly its columns (its rows), each
\* once, in ascending order; the slices of two components do not overlap;
\* there are no more components than continuous columns; and the two
\* assertions on componentnextrowindex and componentnextcolindex hold.
C27_FlatLayout ==
    ccpc = "done" =>
       /\ comp.ncomponents <= Cardinality({c \in MatrixCols : IsContinuous(c)})
       /\ comp.ncomponents # 0 =>
             LET ids == 0..(comp.ncomponents - 1)
                 zero == [k \in ids |-> 0]
                 nextcol == FillSlices(<<>>, zero, comp.colcomponent,
                                       comp.componentcolstart, 0, comp.nmatrixcols).next
                 nextrow == FillSlices(<<>>, zero, comp.rowcomponent,
                                       comp.componentrowstart, 0, comp.nmatrixrows).next
             IN  /\ StartsArePrefixSums(comp.componentcolstart, comp.ncomponentcols,
                                        comp.ncomponents)
                 /\ StartsArePrefixSums(comp.componentrowstart, comp.ncomponentrows,
                                        comp.ncomponents)
                 /\ \A k \in ids :
                       /\ SliceHolds(comp.componentcols, comp.componentcolstart,
                                     comp.ncomponentcols, k, ColsOfComponent(k))
                       /\ SliceHolds(comp.componentrows, comp.componentrowstart,
                                     comp.ncomponentrows, k, RowsOfComponent(k))
                       /\ nextrow[k] = comp.ncomponentrows[k]
                       /\ nextcol[k] = comp.ncomponentcols[k]
                 /\ \A k1, k2 \in ids :
                       k1 # k2 =>
                          /\ SlicePositions(comp.componentcolstart, comp.ncomponentcols, k1)
                                \cap SlicePositions(comp.componentcolstart,
                                                    comp.ncomponentcols, k2) = {}
                          /\ SlicePositions(comp.componentrowstart, comp.ncomponentrows, k1)
                                \cap SlicePositions(comp.componentrowstart,
                                                    comp.ncomponentrows, k2) = {}

\* C27 witness: three components of one column each, the second with both
\* rows, the others with none
C27_Witness ==
    /\ ccpc = "done" /\ comp.ncomponents = 3
    /\ comp.ncomponentrows[0] = 0 /\ comp.ncomponentrows[1] = 2
    /\ comp.ncomponentrows[2] = 0
    /\ comp.componentcolstart[2] = 2
    /\ comp.componentrowstart[2] = 2
    /\ comp.componentrows[0] = 0 /\ comp.componentrows[1] = 1

\* ------------------------------------------------------------------------
\* The engine: the two traversals, repeated rows

\* the rows k, k+1, ... of the row-wise test case are all accepted, one after
\* the other, by the decomposition d
RECURSIVE RowsAllAccepted(_, _, _)
RowsAllAccepted(d, tc, k) ==
    IF k >= tc.nrows THEN TRUE
    ELSE \E res \in {AddRowOf(d, tc, k)} :
            res.success /\ RowsAllAccepted(res.dec, tc, k + 1)

\* the columns k, k+1, ... of the column-wise test case are all accepted, one
\* after the other, by the decomposition d
RECURSIVE ColsAllAccepted(_, _, _)
ColsAllAccepted(d, cw, k) ==
    IF k >= cw.ncols THEN TRUE
    ELSE \E res \in {AddColOf(d, cw, k)} :
            res.success /\ ColsAllAccepted(res.dec, cw, k + 1)

\* the run at hand is over and accepted every vector
RunAcceptedAll == pc = "done" /\ isNetwork /\ retcode = "SCIP_OKAY"

RowOf(k) == [c \in 0..(testCase.ncols - 1) |-> Entry(k, c)]

\* row k of the test matrix is equal to a row before it, or to its negation
RepeatsEarlierRow(k) ==
    \E j \in 0..(k - 1) :
       \/ RowOf(k) = RowOf(j)
       \/ RowOf(k) = [c \in 0..(testCase.ncols - 1) |-> 0 - Entry(j, c)]

\* column c of the test matrix cut to the rows 0..i-1, the rows accepted so far
ColumnSoFar(c) == [r \in 0..(testCase.nrows - 1) |-> IF r < i THEN Entry(r, c) ELSE 0]

\* C29: in a run that adds the rows of a matrix in order, a row equal to a row
\* accepted before it, or to the negation of one, is not rejected; and after it
\* was accepted the cycle check returns true for every column, with the entries
\* of the column in the rows accepted so far.
C29_RepeatedRowAccepted ==
    mode \in {"row", "graph"} =>
       /\ ~isNetwork => ~RepeatsEarlierRow(i)
       /\ (isNetwork /\ i >= 1 /\ RepeatsEarlierRow(i - 1)) =>
             /\ cycleIsCorrect
             /\ \A c \in 0..(testCase.ncols - 1) :
                   \A s \in {SparseOf(ColumnSoFar(c), testCase.nrows)} :
                      SCIPnetmatdecVerifyCycle(dec, c, s.idx, s.val, s.n).result

\* C29 witness: the run of rowadd_singlerigid_2 is over: the fourth row, the
\* negation of the second, was accepted after the three rows of the rigid
\* member, and the cycle checks held
C29_Witness ==
    /\ mode = "row" /\ pc = "done" /\ isNetwork /\ i = 4 /\ cycleIsCorrect
    /\ testCase.nrows = SingleRigidNRows /\ nums \in SingleRigidStrings
    /\ Entry(3, 0) = -1 /\ Entry(3, 1) = -1 /\ Entry(3, 2) = 0
    /\ dec.rowids = {0, 1, 2, 3}

\* ------------------------------------------------------------------------
\* The presolver: the result and the early exits

\* presolExecImplint has made no call of the engine and changed nothing
NothingDone ==
    /\ vartype = matrix.vartype /\ nchgvartypes = 0
    /\ calls = <<>> /\ removals = <<>>
    /\ decPrimary = <<>> /\ transdec = <<>>
    /\ comp = <<>> /\ stats = <<>>

\* C30: when presolExecImplint has returned, the result is SCIP_SUCCESS if and
\* only if the type of a variable was changed.  If the stage is not presolving,
\* SCIP is probing, the NLP is enabled, SCIP is stopped or a pricer is active,
\* the result is SCIP_DIDNOTRUN; otherwise, if convertintegers is off and there
\* is no continuous variable, it is SCIP_DIDNOTFIND; otherwise, if the matrix
\* is reported infeasible, it is SCIP_CUTOFF; otherwise, if the matrix is not
\* initialized or not complete, it is SCIP_DIDNOTFIND.  In all these cases no
\* type was changed and no call of the engine made.  No matrix stays allocated:
\* where SCIPmatrixCreate was called and reported an initialized matrix, the
\* matrix was freed.
C30_ResultAndEarlyExits ==
    /\ matrixalloc = "allocated" => fipc \notin {"exec", "returned"}
    /\ fipc = "returned" =>
          LET notrun == \/ scip.stage # "SCIP_STAGE_PRESOLVING" \/ scip.inProbing
                        \/ scip.nlpEnabled \/ scip.stopped \/ scip.nactivepricers > 0
              nocandidates ==
                 /\ ~presoldata.convertintegers
                 /\ \A c \in MatrixCols : matrix.vartype[c] # "SCIP_VARTYPE_CONTINUOUS"
              created == ~notrun /\ ~nocandidates
          IN  /\ (result = "SCIP_SUCCESS") <=> (\E c \in MatrixCols : vartype[c] # matrix.vartype[c])
              /\ notrun => result = "SCIP_DIDNOTRUN" /\ NothingDone
              /\ (~notrun /\ nocandidates) => result = "SCIP_DIDNOTFIND" /\ NothingDone
              /\ (created /\ scip.infeasible) => result = "SCIP_CUTOFF" /\ NothingDone
              /\ (created /\ ~scip.infeasible /\ ~(scip.initialized /\ scip.complete)) =>
                    result = "SCIP_DIDNOTFIND" /\ NothingDone
              /\ matrixalloc = IF created /\ scip.initialized THEN "freed" ELSE "none"
              /\ result \in {"SCIP_DIDNOTRUN", "SCIP_DIDNOTFIND", "SCIP_CUTOFF", "SCIP_SUCCESS"}

\* C30 witness: the matrix of a problem with a continuous variable was
\* initialized and reported infeasible: the result is SCIP_CUTOFF, the matrix
\* was freed, nothing else was done
C30_Witness ==
    /\ fipc = "returned" /\ result = "SCIP_CUTOFF"
    /\ scip.infeasible /\ scip.initialized /\ scip.complete
    /\ matrix.vartype[0] = "SCIP_VARTYPE_CONTINUOUS"
    /\ matrixalloc = "freed"
    /\ NothingDone

====
